---- MODULE Spec2Model ----
(***************************************************************************)
(* A model of Dicom-Tools-rs: the pixel statistics and histogram engine    *)
(* (stats.rs) with its CLI and HTTP callers, the raster exporter           *)
(* (image.rs) and the uncompressed transcoder (transcode.rs).              *)
(*                                                                         *)
(* The file store (storage.rs), the parallel batch runner (batch.rs), the   *)
(* anonymizer and the validator (anonymize.rs, validate.rs) and the        *)
(* C-STORE client (scu.rs) complete it.                                    *)
(*                                                                         *)
(* Eight specifications share the module:                                  *)
(*   SpecStats     - statistics / histogram calls on one decoded buffer    *)
(*   SpecExport    - image::convert, one step of the function per action   *)
(*   SpecTranscode - transcode::transcode followed by a re-decode          *)
(*   SpecStore     - FileStore::save and FileStore::resolve on one store   *)
(*   SpecBatch     - batch::process_directory with its worker threads      *)
(*   SpecObject    - anonymize_obj and validate_obj on one data set        *)
(*   SpecBinIndex  - the f32 computation of a histogram bin index          *)
(*   SpecPush      - scu::push, one call on the association per action     *)
(* Each specification leaves the variables of the others at their initial  *)
(* (idle) value.                                                           *)
(*                                                                         *)
(* Numbers.  Sample values are f32 in the program.  Every value of the     *)
(* model is an integer of magnitude below 2^24, which f32 represents       *)
(* exactly; quotients (mean, median, variance) are kept as exact           *)
(* fractions [num, den].  The f32 rounding of the bin index computation    *)
(* is modelled separately (f32_div, f32_mul) and compared with the exact   *)
(* index under SpecBinIndex.                                               *)
(***************************************************************************)
EXTENDS Integers, Sequences, FiniteSets, TLC

VARIABLES
    \* ---- statistics / histogram (stats.rs, cli.rs, web.rs)
    file,        \* what is on disk at the path: "ok", "missing", "undecodable", "unconvertible"
    decoded,     \* the DecodedPixelData the file decodes to
    call,        \* the entry point of the last call, or "none"
    arg,         \* the bin count given to the last call (None when it takes none)
    values,      \* the Vec<f32> pixel_values returned to the last call
    result,      \* what the last call returned
    opens,       \* number of open_file calls made by the last call
    decodes,     \* number of decode_pixel_data calls made by the last call
    \* ---- raster export (image.rs)
    xargs,       \* the ToImage command line, None for a direct call of convert
    xin,         \* the export request: file, frame count, options
    xpc,         \* position inside image::convert
    xframes,     \* the local Vec<u32> `frames`
    xopts,       \* the local `convert_options`
    xi,          \* index into xframes of the loop at image.rs:80
    xlog,        \* the conversions and saves performed so far, in order
    xfs,         \* the image files the call has created, with the frame each holds
    xresult,     \* what convert returned
    \* ---- transcoder (transcode.rs)
    tin,         \* the source file and the requested target
    tpc,         \* position inside transcode::transcode
    tbytes,      \* the local `pixel_bytes`
    tobj,        \* the local `new_obj`, the data set being rebuilt
    tout,        \* the output file, None while nothing was written
    tresult,     \* what transcode returned
    \* ---- file store (storage.rs)
    sroot,       \* FileStore.root, the path given to FileStore::new
    sfs,         \* the file system: directories, files and symbolic links
    scall,       \* the last call of save or resolve, with what it returned
    ssaved,      \* the file names save has returned
    \* ---- batch (batch.rs)
    bin,         \* the directory walked and the operation requested
    bpc,         \* position inside batch::process_directory
    bfiles,      \* the local Vec `files`
    bdir,        \* what is now at each file name of the directory
    bwork,       \* per worker thread: the file it is processing and how far it is
    bcount,      \* per collected file: how many times its closure ran to its end
    blog,        \* the lines printed per file, in the order they were printed
    bpanic,      \* a worker's closure has panicked
    bresult,     \* what process_directory returned
    \* ---- data set operations (anonymize.rs, validate.rs)
    oin,         \* the data set handed to the last call
    ocall,       \* "anonymize_obj", "validate_obj", or "none"
    oout,        \* the data set after anonymize_obj, or the ValidationSummary
    \* ---- the bin of one sample (stats.rs:133-140)
    kin,         \* min and max of a buffer, the bin count, and two of its samples
    kout,        \* the bins the two samples were counted in
    \* ---- C-STORE client (scu.rs)
    pin,         \* the file pushed and how the peer and the network will behave
    ppc,         \* position inside scu::push
    passoc,      \* the association: "none", "established", "released"
    plog,        \* what was done on the association, in order
    presult      \* what push returned

statsVars == <<file, decoded, call, arg, values, result, opens, decodes>>
exportVars == <<xargs, xin, xpc, xframes, xopts, xi, xlog, xfs, xresult>>
transVars == <<tin, tpc, tbytes, tobj, tout, tresult>>
storeVars == <<sroot, sfs, scall, ssaved>>
batchVars == <<bin, bpc, bfiles, bdir, bwork, bcount, blog, bpanic, bresult>>
objVars == <<oin, ocall, oout>>
scuVars == <<pin, ppc, passoc, plog, presult>>
binVars == <<kin, kout>>
auxVars == <<objVars, scuVars, binVars>>
vars == <<statsVars, exportVars, transVars, storeVars, batchVars, auxVars>>

\* Option<T>: None, or Some(x)
None == << >>
Some(x) == <<x>>
Unwrap(o) == o[1]

Ok(v) == [ok |-> TRUE, val |-> v]
Err(e) == [ok |-> FALSE, err |-> e]

(***************************************************************************)
(* Bounds of the model.                                                    *)
(***************************************************************************)
MaxSamples == 4      \* longest pixel buffer
MaxBins == 4         \* largest explicit bin count

RECURSIVE SeqsUpTo(_, _)
SeqsUpTo(S, n) ==
    IF n = 0 THEN {<< >>}
    ELSE LET shorter == SeqsUpTo(S, n - 1)
         IN shorter \cup {Append(s, x) : s \in {t \in shorter : Len(t) = n - 1}, x \in S}

\* the sum of s[lo..hi], by halves
RECURSIVE SumRange(_, _, _)
SumRange(s, lo, hi) ==
    IF lo > hi THEN 0
    ELSE IF lo = hi THEN s[lo]
    ELSE LET mid == (lo + hi) \div 2
         IN SumRange(s, lo, mid) + SumRange(s, mid + 1, hi)

SumSeq(s) == SumRange(s, 1, Len(s))

Range(s) == {s[i] : i \in DOMAIN s}

\* exact fractions
Rat(n, d) == [num |-> n, den |-> d]
RatLeq(a, b) == a.num * b.den <= b.num * a.den
RatEq(a, b) == a.num * b.den = b.num * a.den

(***************************************************************************)
(* Decoded pixel data.  raw are the stored samples of all frames,          *)
(* flattened; rescale and window are the buffer's embedded modality and    *)
(* VOI parameters (None when the object carries none).                     *)
(***************************************************************************)
RawValues == {0, 64, 128, 255}
Rescales == {None, Some([slope |-> 2, intercept |-> -1024])}
Windows == {None, Some([center |-> 50, width |-> 150])}

NoPixels == [raw |-> << >>, rescale |-> None, window |-> None]

DecodedBuffers ==
    [raw : SeqsUpTo(RawValues, MaxSamples), rescale : Rescales, window : Windows]

\* ModalityLutOption::Default: value' = raw * slope + intercept when the
\* buffer carries a rescale pair, identity otherwise.
ModalityLut(d, x) ==
    IF d.rescale = None THEN x
    ELSE x * Unwrap(d.rescale).slope + Unwrap(d.rescale).intercept

\* the frame/row/column/sample dimensions of the ndarray
Shape(d) == <<1, 1, Len(d.raw), 1>>

\* A variant of pixel_values that also applies the buffer's embedded window
\* (clipping to [center - width/2, center + width/2]).
pixel_values_windowed(d) ==
    LET clip(x) ==
            IF d.window = None THEN x
            ELSE LET w == Unwrap(d.window)
                     lo == w.center - (w.width \div 2)
                     hi == w.center + (w.width \div 2)
                 IN IF x < lo THEN lo ELSE IF x > hi THEN hi ELSE x
    IN [vals |-> [i \in DOMAIN d.raw |-> clip(ModalityLut(d, d.raw[i]))],
        shape |-> Shape(d)]

\* stats.rs pixel_values: ConvertOptions::new().with_modality_lut(Default),
\* to_ndarray_with_options::<f32>.  The VOI option stays at its default, which
\* on the ndarray path applies no window.
pixel_values(d) ==
    [vals |-> [i \in DOMAIN d.raw |-> ModalityLut(d, d.raw[i])],
     shape |-> Shape(d)]

(***************************************************************************)
(* stats.rs: statistics.                                                   *)
(***************************************************************************)
\* f32::INFINITY and f32::NEG_INFINITY, the seeds of the two folds: beyond
\* every sample value of the model (all of magnitude below 2^24).
Infinity == 16777216
NegInfinity == -16777216

\* An f32::min that keeps its left operand once it is finite.
F32MinKeepsFirst(m, v) == IF m = Infinity THEN v ELSE m

\* a.min(b) and a.max(b) on f32
F32Min(m, v) == IF v < m THEN v ELSE m
F32Max(m, v) == IF v > m THEN v ELSE m

\* stats.rs:65-69 and 125-128: the running minimum and maximum
RECURSIVE FoldMin(_, _)
FoldMin(m, s) == IF s = << >> THEN m ELSE FoldMin(F32Min(m, Head(s)), Tail(s))

RECURSIVE FoldMax(_, _)
FoldMax(m, s) == IF s = << >> THEN m ELSE FoldMax(F32Max(m, Head(s)), Tail(s))

RECURSIVE InsertSorted(_, _)
InsertSorted(s, x) ==
    IF s = << >> THEN <<x>>
    ELSE IF x < Head(s) THEN <<x>> \o s
    ELSE <<Head(s)>> \o InsertSorted(Tail(s), x)

\* A sort that leaves the vector as it is.
SortByNoop(s) == s

\* sorted.sort_by(partial_cmp): a stable ascending sort
RECURSIVE SortBy(_)
SortBy(s) ==
    IF s = << >> THEN << >>
    ELSE InsertSorted(SortBy(SubSeq(s, 1, Len(s) - 1)), s[Len(s)])

\* stats.rs:81-90, on a non-empty vector; indices are 0-based in the code
\* and 1-based here.
Median(vals) ==
    LET sorted == SortBy(vals)
        mid == Len(sorted) \div 2
    IN IF Len(sorted) % 2 = 0
       THEN Rat(sorted[mid] + sorted[mid + 1], 2)
       ELSE Rat(sorted[mid + 1], 1)

\* Statistics that reject an empty buffer.
StatisticsEmptyIsError(pv) ==
    IF pv.vals = << >> THEN Err("empty pixel data")
    ELSE Ok([min |-> FoldMin(Infinity, pv.vals),
             max |-> FoldMax(NegInfinity, pv.vals),
             mean |-> Rat(SumSeq(pv.vals), Len(pv.vals)),
             median |-> None,
             std_dev_sq |-> Rat(0, 1),
             total_pixels |-> Len(pv.vals),
             shape |-> pv.shape])

\* The body of pixel_statistics_from_decoded once pixel_values returned
\* (vals, shape).  std_dev is kept as its square, the population variance:
\* sum((v - mean)^2) / N = sum((v*N - sum)^2) / N^3.
Statistics(pv) ==
    IF pv.vals = << >>
    THEN Ok([min |-> 0, max |-> 0, mean |-> Rat(0, 1), median |-> None,
             std_dev_sq |-> Rat(0, 1), total_pixels |-> 0, shape |-> pv.shape])
    ELSE LET total_pixels == Len(pv.vals)
             sum == SumSeq(pv.vals)
             variance_sum ==
                 SumSeq([i \in DOMAIN pv.vals |->
                            (pv.vals[i] * total_pixels - sum)
                          * (pv.vals[i] * total_pixels - sum)])
         IN Ok([min |-> FoldMin(Infinity, pv.vals),
                max |-> FoldMax(NegInfinity, pv.vals),
                mean |-> Rat(sum, total_pixels),
                median |-> Some(Median(pv.vals)),
                std_dev_sq |-> Rat(variance_sum,
                                   total_pixels * total_pixels * total_pixels),
                total_pixels |-> total_pixels,
                shape |-> pv.shape])

(***************************************************************************)
(* stats.rs: histogram.                                                    *)
(***************************************************************************)
Min2(a, b) == IF a < b THEN a ELSE b
Max2(a, b) == IF a > b THEN a ELSE b

\* A bin index without the clamp to bin_count - 1.
BinIndexUnclamped(v, min, range, bin_count) ==
    IF range = 0 THEN 0 ELSE ((v - min) * bin_count) \div range

\* A bin index that sends a zero range to the last bin.
BinIndexZeroRangeLast(v, min, range, bin_count) ==
    IF range = 0 THEN bin_count - 1
    ELSE Min2(((v - min) * bin_count) \div range, bin_count - 1)

\* stats.rs:134-139: floor(((v - min) / range) * bin_count), 0 for a zero
\* range, clamped to bin_count - 1.  v >= min, so the floor is not negative.
BinIndex(v, min, range, bin_count) ==
    LET idx == IF range = 0 THEN 0 ELSE ((v - min) * bin_count) \div range
    IN Min2(idx, bin_count - 1)

\* stats.rs:133-141: counts[clamped] += 1 for every value, in order.  An index
\* outside the vector panics in the program; here it counts nothing.
RECURSIVE CountBins(_, _, _, _, _)
CountBins(vals, counts, min, range, bin_count) ==
    IF vals = << >> THEN counts
    ELSE LET b == BinIndex(Head(vals), min, range, bin_count) + 1
         IN CountBins(Tail(vals),
                      IF b \in DOMAIN counts
                      THEN [counts EXCEPT ![b] = @ + 1] ELSE counts,
                      min, range, bin_count)

\* The body of histogram_from_decoded once pixel_values returned.
Histogram(pv, bins) ==
    IF pv.vals = << >>
    THEN Ok([bins |-> << >>, min |-> 0, max |-> 0])
    ELSE LET min == FoldMin(Infinity, pv.vals)
             max == FoldMax(NegInfinity, pv.vals)
             bin_count == Max2(bins, 1)
             counts == [b \in 1..bin_count |-> 0]
             range == max - min
         IN Ok([bins |-> CountBins(pv.vals, counts, min, range, bin_count),
                min |-> min, max |-> max])

(***************************************************************************)
(* What one call did: the value returned, how often it opened and decoded  *)
(* the file, and the local `values` vector at the end of the call.         *)
(***************************************************************************)
Outcome(ret, o, d, v) == [ret |-> ret, opens |-> o, decodes |-> d, values |-> v]

\* a DecodedPixelData exists for the file
HasDecoded(f) == f \in {"ok", "unconvertible"}

pixel_statistics_from_decoded(f, d) ==
    IF f = "unconvertible"
    THEN Outcome(Err("pixel_values"), 0, 0, << >>)
    ELSE Outcome(Statistics(pixel_values(d)), 0, 0, pixel_values(d).vals)

pixel_statistics_for_file(f, d) ==
    IF f = "missing"
    THEN Outcome(Err("Failed to open DICOM file"), 1, 0, << >>)
    ELSE IF f = "undecodable"
    THEN Outcome(Err("Failed to decode pixel data"), 1, 1, << >>)
    ELSE LET o == pixel_statistics_from_decoded(f, d)
         IN Outcome(o.ret, o.opens + 1, o.decodes + 1, o.values)

histogram_from_decoded(f, d, bins) ==
    IF f = "unconvertible"
    THEN Outcome(Err("pixel_values"), 0, 0, << >>)
    ELSE Outcome(Histogram(pixel_values(d), bins), 0, 0, pixel_values(d).vals)

histogram_for_file(f, d, bins) ==
    IF f = "missing"
    THEN Outcome(Err("Failed to open DICOM file"), 1, 0, << >>)
    ELSE IF f = "undecodable"
    THEN Outcome(Err("Failed to decode pixel data"), 1, 1, << >>)
    ELSE LET o == histogram_from_decoded(f, d, bins)
         IN Outcome(o.ret, o.opens + 1, o.decodes + 1, o.values)

\* cli.rs:200-204, Commands::Histogram
cli_histogram(f, d, bins) ==
    IF bins = 0
    THEN Outcome(Err("Number of bins must be greater than zero"), 0, 0, << >>)
    ELSE histogram_for_file(f, d, bins)

\* query.bins.unwrap_or(256)
DefaultBins == 256

\* web.rs:140-159.  FileStore::resolve canonicalizes the path, which fails
\* for a file that does not exist.
histogram_handler(f, d, query_bins) ==
    LET bins == IF query_bins = None THEN DefaultBins ELSE Unwrap(query_bins)
    IN IF bins = 0
       THEN Outcome(Err("BAD_REQUEST"), 0, 0, << >>)
       ELSE IF f = "missing"
       THEN Outcome(Err("NOT_FOUND"), 0, 0, << >>)
       ELSE histogram_for_file(f, d, bins)

\* web.rs:126-133
get_stats(f, d) ==
    IF f = "missing"
    THEN Outcome(Err("NOT_FOUND"), 0, 0, << >>)
    ELSE pixel_statistics_for_file(f, d)

\* stats.rs:159-185: the first rescale and the first window of the buffer; no
\* pixel value is converted
pixel_format_from_decoded(f, d) ==
    Outcome(Ok([rescale |-> d.rescale, window |-> d.window]), 0, 0, << >>)

\* stats.rs:151-157
pixel_format_for_file(f, d) ==
    IF f = "missing"
    THEN Outcome(Err("Failed to open DICOM file"), 1, 0, << >>)
    ELSE IF f = "undecodable"
    THEN Outcome(Err("Failed to decode pixel data"), 1, 1, << >>)
    ELSE LET o == pixel_format_from_decoded(f, d)
         IN Outcome(o.ret, o.opens + 1, o.decodes + 1, o.values)

\* web.rs:96-113, once the upload was saved: open_file, decode_pixel_data().ok(),
\* pixel_format_from_decoded(..).ok(), or else pixel_format_for_file(..).ok().
\* "missing" is here a saved upload that open_file cannot parse.
upload_handler(f, d) ==
    IF f = "missing"
    THEN Outcome(Err("INTERNAL_SERVER_ERROR"), 1, 0, << >>)
    ELSE LET first == IF f = "undecodable" THEN None
                      ELSE Some(pixel_format_from_decoded(f, d).ret)
             again == pixel_format_for_file(f, d)
         IN IF first # None /\ Unwrap(first).ok
            THEN Outcome(Ok([success |-> TRUE, pixel_format |-> Some(Unwrap(first).val)]),
                         1, 1, << >>)
            ELSE Outcome(Ok([success |-> TRUE,
                             pixel_format |-> IF again.ret.ok THEN Some(again.ret.val)
                                              ELSE None]),
                         1 + again.opens, 1 + again.decodes, << >>)

(***************************************************************************)
(* SpecStats: any sequence of statistics and histogram calls on one file.  *)
(***************************************************************************)
BinArgs == 0..MaxBins

Record(name, a, o) ==
    /\ call' = name
    /\ arg' = a
    /\ result' = o.ret
    /\ values' = o.values
    /\ opens' = o.opens
    /\ decodes' = o.decodes
    /\ UNCHANGED <<file, decoded, exportVars, transVars, storeVars, batchVars, auxVars>>

StatsFromDecoded ==
    /\ HasDecoded(file)
    /\ Record("pixel_statistics_from_decoded", None,
              pixel_statistics_from_decoded(file, decoded))

StatsForFile ==
    Record("pixel_statistics_for_file", None, pixel_statistics_for_file(file, decoded))

\* stats.rs:19-35, the CLI Stats command: prints what pixel_statistics_for_file
\* returned.
CliStats ==
    Record("stats", None, pixel_statistics_for_file(file, decoded))

HttpStats ==
    Record("get_stats", None, get_stats(file, decoded))

HistogramFromDecoded ==
    /\ HasDecoded(file)
    /\ \E bins \in BinArgs :
          Record("histogram_from_decoded", Some(bins),
                 histogram_from_decoded(file, decoded, bins))

HistogramForFile ==
    \E bins \in BinArgs :
        Record("histogram_for_file", Some(bins), histogram_for_file(file, decoded, bins))

CliHistogram ==
    \E bins \in BinArgs :
        Record("cli_histogram", Some(bins), cli_histogram(file, decoded, bins))

HttpHistogram ==
    \E q \in {None} \cup {Some(b) : b \in BinArgs} :
        Record("histogram_handler", q, histogram_handler(file, decoded, q))

FormatForFile ==
    Record("pixel_format_for_file", None, pixel_format_for_file(file, decoded))

HttpUpload ==
    Record("upload_handler", None, upload_handler(file, decoded))

ExportIdle ==
    /\ xargs = None /\ xin = None /\ xpc = "idle" /\ xframes = << >> /\ xopts = None /\ xi = 0
    /\ xlog = << >> /\ xfs = {} /\ xresult = None

TranscodeIdle ==
    /\ tin = None /\ tpc = "idle" /\ tbytes = << >> /\ tobj = None /\ tout = None
    /\ tresult = None

StoreIdle ==
    /\ sroot = None /\ sfs = {} /\ scall = None /\ ssaved = {}

ObjIdle == oin = << >> /\ ocall = "none" /\ oout = None

ScuIdle ==
    /\ pin = None /\ ppc = "idle" /\ passoc = "none" /\ plog = << >> /\ presult = None

BinIdle == kin = None /\ kout = None

AuxIdle == ObjIdle /\ ScuIdle /\ BinIdle

BatchIdle ==
    /\ bin = None /\ bpc = "idle" /\ bfiles = << >> /\ bdir = << >> /\ bwork = << >>
    /\ bcount = << >> /\ blog = << >> /\ bpanic = FALSE /\ bresult = None

InitStats ==
    /\ \/ file = "ok" /\ decoded \in DecodedBuffers
       \/ file \in {"missing", "undecodable", "unconvertible"} /\ decoded = NoPixels
    /\ call = "none" /\ arg = None /\ values = << >> /\ result = None
    /\ opens = 0 /\ decodes = 0
    /\ ExportIdle /\ TranscodeIdle /\ StoreIdle /\ BatchIdle /\ AuxIdle

NextStats ==
    \/ StatsFromDecoded
    \/ StatsForFile
    \/ CliStats
    \/ HttpStats
    \/ HistogramFromDecoded
    \/ HistogramForFile
    \/ CliHistogram
    \/ HttpHistogram
    \/ FormatForFile
    \/ HttpUpload

SpecStats == InitStats /\ [][NextStats]_vars

(***************************************************************************)
(* Properties of the statistics and histogram engine, under SpecStats.     *)
(***************************************************************************)
StatsCalls ==
    {"pixel_statistics_from_decoded", "pixel_statistics_for_file", "stats", "get_stats"}
HistogramCalls ==
    {"histogram_from_decoded", "histogram_for_file", "cli_histogram", "histogram_handler"}

\* the bin count the last histogram call asked for
RequestedBins == IF arg = None THEN DefaultBins ELSE Unwrap(arg)

\* the modality-transformed samples of the buffer, as a set
Transformed == {ModalityLut(decoded, decoded.raw[i]) : i \in DOMAIN decoded.raw}
Smallest(S) == CHOOSE m \in S : \A x \in S : m <= x
Largest(S) == CHOOSE m \in S : \A x \in S : m >= x

\* the k-th smallest (k = 1..Len) of a vector, without sorting it: the value
\* x with fewer than k elements below it and at least k elements at or below
KthSmallest(vals, k) ==
    CHOOSE x \in Range(vals) :
        /\ Cardinality({i \in DOMAIN vals : vals[i] < x}) < k
        /\ Cardinality({i \in DOMAIN vals : vals[i] <= x}) >= k

\* C1: for a non-empty buffer and a bin count >= 1 the histogram is returned
\* and the sum of its bins is the number of samples of the buffer.
C1_HistogramSumIsSampleCount ==
    (/\ call \in HistogramCalls
     /\ file = "ok"
     /\ decoded.raw # << >>
     /\ RequestedBins >= 1)
    => /\ result.ok
       /\ SumSeq(result.val.bins) = Len(decoded.raw)

C1_Witness ==
    /\ call = "histogram_from_decoded"
    /\ arg = Some(3)
    /\ decoded.raw = <<0, 255, 64, 128>>
    /\ result.ok
    /\ result.val.bins = <<2, 1, 1>>

\* C2: a histogram request with a zero bin count is rejected by every entry
\* point before anything is read: the call returns an error and has neither
\* opened nor decoded the file.
C2_ZeroBinsRejectedEverywhere ==
    (call \in HistogramCalls /\ arg = Some(0))
    => /\ ~result.ok
       /\ opens = 0
       /\ decodes = 0

\* C6: statistics and histograms are computed over the modality-transformed
\* samples (raw * slope + intercept), never clipped to the embedded window:
\* min and max are the smallest and largest transformed sample, and slope 2,
\* intercept -1024, raw [0,64,128,255], window 50/150 gives -1024 and -514.
C6_ModalityOnlyNoWindow ==
    (/\ call \in StatsCalls \cup HistogramCalls
     /\ result.ok
     /\ decoded.raw # << >>)
    => /\ values = [i \in DOMAIN decoded.raw |-> ModalityLut(decoded, decoded.raw[i])]
       /\ result.val.min = Smallest(Transformed)
       /\ result.val.max = Largest(Transformed)
       /\ (/\ decoded.raw = <<0, 64, 128, 255>>
           /\ decoded.rescale = Some([slope |-> 2, intercept |-> -1024]))
          => (result.val.min = -1024 /\ result.val.max = -514)

C6_Witness ==
    /\ call = "pixel_statistics_for_file"
    /\ decoded.raw = <<0, 64, 128, 255>>
    /\ decoded.rescale = Some([slope |-> 2, intercept |-> -1024])
    /\ decoded.window = Some([center |-> 50, width |-> 150])
    /\ result.ok
    /\ result.val.min = -1024
    /\ result.val.max = -514

\* C7: for an empty buffer the statistics are Ok with min = max = mean =
\* std_dev = 0, no median and a total of 0; for a non-empty buffer the
\* statistics are Ok and carry a median.
C7_EmptyBufferStatistics ==
    (call \in StatsCalls /\ file = "ok")
    => /\ result.ok
       /\ decoded.raw = << >> =>
             /\ result.val.min = 0
             /\ result.val.max = 0
             /\ result.val.mean = Rat(0, 1)
             /\ result.val.std_dev_sq = Rat(0, 1)
             /\ result.val.median = None
             /\ result.val.total_pixels = 0
       /\ decoded.raw # << >> =>
             /\ result.val.median # None
             /\ result.val.total_pixels = Len(decoded.raw)

C7_Witness ==
    /\ call = "pixel_statistics_from_decoded"
    /\ file = "ok"
    /\ decoded.raw = << >>
    /\ result.ok
    /\ result.val.median = None

\* C8: the median of N samples is the central element of the sorted samples
\* for odd N and the average of the two central elements for even N, it is
\* the same for every reordering of the samples, and the vector of samples
\* itself is still in buffer order after the call.
C8_MedianOfSortedCopy ==
    (/\ call \in StatsCalls
     /\ result.ok
     /\ decoded.raw # << >>)
    => LET n == Len(values)
           med == Unwrap(result.val.median)
       IN /\ n % 2 = 1 => med = Rat(KthSmallest(values, n \div 2 + 1), 1)
          /\ n % 2 = 0 =>
                med = Rat(KthSmallest(values, n \div 2)
                          + KthSmallest(values, n \div 2 + 1), 2)
          /\ \A p \in Permutations(DOMAIN values) :
                Median([i \in DOMAIN values |-> values[p[i]]]) = med
          /\ values = pixel_values(decoded).vals

C8_Witness ==
    /\ call = "pixel_statistics_from_decoded"
    /\ decoded.raw = <<255, 0, 128, 64>>
    /\ decoded.rescale = None
    /\ result.ok
    /\ result.val.median = Some(Rat(192, 2))
    /\ values = <<255, 0, 128, 64>>

\* C9: the statistics satisfy min <= mean <= max for every buffer, and
\* min <= median <= max for a non-empty one, min and max being the smallest
\* and largest transformed sample.
C9_MinMeanMaxOrdered ==
    (call \in StatsCalls /\ result.ok)
    => /\ RatLeq(Rat(result.val.min, 1), result.val.mean)
       /\ RatLeq(result.val.mean, Rat(result.val.max, 1))
       /\ decoded.raw # << >> =>
             /\ RatLeq(Rat(result.val.min, 1), Unwrap(result.val.median))
             /\ RatLeq(Unwrap(result.val.median), Rat(result.val.max, 1))
             /\ result.val.min = Smallest(Transformed)
             /\ result.val.max = Largest(Transformed)

C9_Witness ==
    /\ call = "pixel_statistics_from_decoded"
    /\ result.ok
    /\ decoded.raw = <<128, 0, 255>>
    /\ result.val.min < result.val.max
    /\ ~RatLeq(result.val.mean, Rat(result.val.min, 1))
    /\ ~RatLeq(Rat(result.val.max, 1), result.val.mean)

\* C10: when every sample of a non-empty buffer has the same value, a
\* histogram with any bin count >= 1 has all N samples in bin 0 and 0 in every
\* other bin.
C10_DegenerateRangeBinZero ==
    (/\ call \in HistogramCalls
     /\ file = "ok"
     /\ decoded.raw # << >>
     /\ Cardinality(Transformed) = 1
     /\ RequestedBins >= 1)
    => /\ result.ok
       /\ Len(result.val.bins) = RequestedBins
       /\ result.val.bins[1] = Len(decoded.raw)
       /\ \A b \in 2..RequestedBins : result.val.bins[b] = 0

C10_Witness ==
    /\ call = "histogram_for_file"
    /\ arg = Some(4)
    /\ decoded.raw = <<64, 64, 64>>
    /\ result.ok
    /\ result.val.bins = <<3, 0, 0, 0>>

\* C11: for every buffer of a readable file, the empty one included, and
\* every requested bin count >= 1, the histogram is returned and its bins
\* vector has exactly the requested number of entries.
C11_BinsLengthIsRequestedCount ==
    (/\ call \in HistogramCalls
     /\ file = "ok"
     /\ RequestedBins >= 1)
    => /\ result.ok
       /\ Len(result.val.bins) = RequestedBins

\* the entry points that are given a file
FileCalls ==
    {"pixel_statistics_for_file", "stats", "get_stats", "histogram_for_file",
     "cli_histogram", "histogram_handler", "pixel_format_for_file", "upload_handler"}

\* C24: a call that is given a file opens it at most once and decodes its
\* pixel data at most once; when the open or the decode it attempted failed,
\* or the decoded buffer could not be converted, the call returns an error.
C24_NoRetryNoSwallow ==
    call \in FileCalls =>
       /\ opens <= 1
       /\ decodes <= 1
       /\ (file = "missing" /\ opens >= 1) => ~result.ok
       /\ (file = "undecodable" /\ decodes >= 1) => ~result.ok

(***************************************************************************)
(* image.rs: raster export.                                                *)
(***************************************************************************)
MaxFrames == 3       \* largest number of frames of an exported file

\* A path is [dir, stem, ext]; the stem is a string of tokens, and is None for
\* a path that ends in ".." or is the root, for which Path::file_stem returns
\* None.
InputPath == [dir |-> "in", stem |-> Some(<<"scan">>), ext |-> Some("dcm")]
OutputPaths ==
    {None,
     Some([dir |-> "out", stem |-> Some(<<"img">>), ext |-> Some("png")]),
     Some([dir |-> "out", stem |-> None, ext |-> None])}

\* WindowLevel { center, width }; the widths cover positive, zero and negative
WindowCenters == {40}
WindowWidths == {400, 0, -10}
ExportWindows ==
    {None} \cup {Some([center |-> c, width |-> w]) : c \in WindowCenters, w \in WindowWidths}

ImageExportOptions ==
    [frame : {None} \cup {Some(f) : f \in 0..MaxFrames},
     window : ExportWindows,
     normalize : BOOLEAN,
     disable_modality_lut : BOOLEAN,
     disable_voi_lut : BOOLEAN,
     force_8bit : BOOLEAN,
     force_16bit : BOOLEAN]

\* Conversion options in which normalize takes precedence over a custom window.
build_convert_options_normalize_first(options) ==
    [modality_lut |-> IF options.disable_modality_lut THEN "None" ELSE "Default",
     voi_lut |->
        IF options.disable_voi_lut THEN <<"Identity">>
        ELSE IF options.normalize THEN <<"Normalize">>
        ELSE IF options.window # None THEN <<"Custom", Unwrap(options.window)>>
        ELSE <<"Default">>,
     bit_depth |->
        IF options.force_16bit THEN "Force16Bit"
        ELSE IF options.force_8bit THEN "Force8Bit"
        ELSE "Auto"]

\* image.rs:108-131.  ConvertOptions::new() starts at modality Default, VOI
\* Default and automatic bit depth.
build_convert_options(options) ==
    [modality_lut |-> IF options.disable_modality_lut THEN "None" ELSE "Default",
     voi_lut |->
        IF options.disable_voi_lut THEN <<"Identity">>
        ELSE IF options.window # None THEN <<"Custom", Unwrap(options.window)>>
        ELSE IF options.normalize THEN <<"Normalize">>
        ELSE <<"Default">>,
     bit_depth |->
        IF options.force_16bit THEN "Force16Bit"
        ELSE IF options.force_8bit THEN "Force8Bit"
        ELSE "Auto"]

\* image.rs:44-48: output.unwrap_or_else(|| input with its extension set to format)
base_output(req) ==
    IF req.output = None
    THEN [InputPath EXCEPT !.ext = Some(req.format)]
    ELSE Unwrap(req.output)

\* the decimal digits of n, most significant first
RECURSIVE Digits(_)
Digits(n) == IF n < 10 THEN <<n>> ELSE Append(Digits(n \div 10), n % 10)

\* format!("{:03}", i): padded with zeros to at least three digits
Pad3(i) ==
    LET d == Digits(i)
    IN [k \in 1..(3 - Len(d)) |-> 0] \o d

DigitChars == <<"0", "1", "2", "3", "4", "5", "6", "7", "8", "9">>

\* A frame file named like the base output, without the frame suffix.
frame_path_unsuffixed(base, i, format) ==
    [dir |-> base.dir, stem |-> base.stem, ext |-> Some(format)]

\* image.rs:82-83: parent.join(format!("{}_frame{:03}.{}", stem, i, format))
frame_path(base, i, format) ==
    [dir |-> base.dir,
     stem |-> Some(Unwrap(base.stem) \o <<"_frame">>
                   \o [k \in DOMAIN Pad3(i) |-> DigitChars[Pad3(i)[k] + 1]]),
     ext |-> Some(format)]

\* A frame selection that accepts an index equal to the frame count.
select_frames_off_by_one(options, num_frames) ==
    IF options.frame # None
    THEN IF Unwrap(options.frame) > num_frames
         THEN Err("Requested frame out of range")
         ELSE Ok(<<Unwrap(options.frame)>>)
    ELSE Ok([k \in 1..num_frames |-> k - 1])

\* A frame selection that lists all frames from the last to the first.
select_frames_descending(options, num_frames) ==
    IF options.frame # None
    THEN IF Unwrap(options.frame) >= num_frames
         THEN Err("Requested frame out of range")
         ELSE Ok(<<Unwrap(options.frame)>>)
    ELSE Ok([k \in 1..num_frames |-> num_frames - k])

\* image.rs:50-61: the frames to export, or the out-of-range error
select_frames(options, num_frames) ==
    IF options.frame # None
    THEN IF Unwrap(options.frame) >= num_frames
         THEN Err("Requested frame out of range")
         ELSE Ok(<<Unwrap(options.frame)>>)
    ELSE Ok([k \in 1..num_frames |-> k - 1])

ExportRequests ==
    [file : {"ok", "missing", "undecodable"},
     num_frames : 1..MaxFrames,
     output : OutputPaths,
     format : {"png"},
     options : ImageExportOptions]

\* cli.rs:41-63, Commands::ToImage: the parsed arguments, with the file the
\* input path names
ToImageArgs ==
    [file : {"ok", "missing", "undecodable"},
     num_frames : 1..MaxFrames,
     output : OutputPaths,
     format : {"png"},
     frame : {None} \cup {Some(f) : f \in 0..MaxFrames},
     window_center : {None} \cup {Some(c) : c \in WindowCenters},
     window_width : {None} \cup {Some(w) : w \in WindowWidths},
     normalize : BOOLEAN,
     disable_modality_lut : BOOLEAN,
     disable_voi_lut : BOOLEAN,
     force_8bit : BOOLEAN,
     force_16bit : BOOLEAN]

\* cli.rs:59, #[arg(long, conflicts_with = "force_16bit")]: Cli::parse ends the
\* process with a usage error when both flags are given
clap_conflict(a) == a.force_8bit /\ a.force_16bit

\* cli.rs:241-253
parse_window(center, width) ==
    IF center # None /\ width # None
    THEN Ok(Some([center |-> Unwrap(center), width |-> Unwrap(width)]))
    ELSE IF center = None /\ width = None
    THEN Ok(None)
    ELSE Err("Provide both --window-center and --window-width, or neither")

\* cli.rs:173-182: the options record and the call of image::convert
cli_request(a, window) ==
    [file |-> a.file, num_frames |-> a.num_frames, output |-> a.output,
     format |-> a.format,
     options |-> [frame |-> a.frame,
                  window |-> window,
                  normalize |-> a.normalize,
                  disable_modality_lut |-> a.disable_modality_lut,
                  disable_voi_lut |-> a.disable_voi_lut,
                  force_8bit |-> a.force_8bit,
                  force_16bit |-> a.force_16bit]]

req == Unwrap(xin)

XFinish(r) == xpc' = "done" /\ xresult' = Some(r)

\* cli.rs:154-183: Cli::parse, parse_window, then image::convert is entered
XCli ==
    /\ xpc = "cli"
    /\ LET a == Unwrap(xargs)
           window == parse_window(a.window_center, a.window_width)
       IN IF clap_conflict(a)
          THEN XFinish(Err("the argument cannot be used with --force-16bit"))
               /\ UNCHANGED xin
          ELSE IF ~window.ok
          THEN XFinish(window) /\ UNCHANGED xin
          ELSE /\ xin' = Some(cli_request(a, window.val))
               /\ xpc' = "open"
               /\ UNCHANGED xresult
    /\ UNCHANGED <<xargs, xframes, xopts, xi, xlog, xfs, statsVars, transVars, storeVars, batchVars, auxVars>>

\* image.rs:35
XOpen ==
    /\ xpc = "open"
    /\ IF req.file = "missing"
       THEN XFinish(Err("Failed to open DICOM file"))
       ELSE xpc' = "decode" /\ UNCHANGED xresult
    /\ xlog' = Append(xlog, <<"open">>)
    /\ UNCHANGED <<xargs, xin, xframes, xopts, xi, xfs, statsVars, transVars, storeVars, batchVars, auxVars>>

\* image.rs:39-42
XDecode ==
    /\ xpc = "decode"
    /\ IF req.file = "undecodable"
       THEN XFinish(Err("Failed to decode pixel data"))
       ELSE xpc' = "select" /\ UNCHANGED xresult
    /\ xlog' = Append(xlog, <<"decode">>)
    /\ UNCHANGED <<xargs, xin, xframes, xopts, xi, xfs, statsVars, transVars, storeVars, batchVars, auxVars>>

\* image.rs:44-63: base_output, frames (or bail!), convert_options
XSelect ==
    /\ xpc = "select"
    /\ LET sel == select_frames(req.options, req.num_frames)
       IN IF ~sel.ok
          THEN /\ XFinish(sel)
               /\ UNCHANGED <<xframes, xopts>>
          ELSE /\ xframes' = sel.val
               /\ xopts' = Some(build_convert_options(req.options))
               /\ xpc' = IF Len(sel.val) = 1 THEN "single_convert" ELSE "multi"
               /\ UNCHANGED xresult
    /\ UNCHANGED <<xargs, xin, xi, xlog, xfs, statsVars, transVars, storeVars, batchVars, auxVars>>

\* image.rs:66-67: to_dynamic_image_with_options(frames[0], ..)?
XSingleConvert ==
    /\ xpc = "single_convert"
    /\ \E converted \in BOOLEAN :
          IF converted
          THEN /\ xpc' = "single_save"
               /\ xlog' = Append(xlog, <<"convert", xframes[1]>>)
               /\ UNCHANGED xresult
          ELSE /\ XFinish(Err("conversion failed"))
               /\ UNCHANGED xlog
    /\ UNCHANGED <<xargs, xin, xframes, xopts, xi, xfs, statsVars, transVars, storeVars, batchVars, auxVars>>

\* DynamicImage::save: the file is complete, or the save fails having created
\* no file or an incomplete one.
SaveOutcomes == {"saved", "failed_no_file", "failed_partial"}

\* A save that removes the files written so far when it fails.
WrittenOrAllRemoved(fs, path, frame, how) ==
    IF how # "saved" THEN {}
    ELSE {f \in fs : f.path # path}
         \cup {[path |-> path, frame |-> frame, complete |-> TRUE]}

Written(fs, path, frame, how) ==
    IF how = "failed_no_file" THEN fs
    ELSE {f \in fs : f.path # path}
         \cup {[path |-> path, frame |-> frame, complete |-> (how = "saved")]}

\* image.rs:68-72
XSingleSave ==
    /\ xpc = "single_save"
    /\ \E how \in SaveOutcomes :
          /\ xfs' = Written(xfs, base_output(req), xframes[1], how)
          /\ IF how = "saved"
             THEN /\ xlog' = Append(xlog, <<"save", xframes[1]>>)
                  /\ XFinish(Ok("saved"))
             ELSE /\ XFinish(Err("Failed to save image"))
                  /\ UNCHANGED xlog
    /\ UNCHANGED <<xargs, xin, xframes, xopts, xi, statsVars, transVars, storeVars, batchVars, auxVars>>

\* image.rs:76-78: base_output.file_stem().unwrap() panics without a file name
XMulti ==
    /\ xpc = "multi"
    /\ IF base_output(req).stem = None
       THEN xpc' = "done" /\ xresult' = Some([ok |-> FALSE, err |-> "panic"])
       ELSE xpc' = "loop" /\ UNCHANGED xresult
    /\ xi' = 1
    /\ UNCHANGED <<xargs, xin, xframes, xopts, xlog, xfs, statsVars, transVars, storeVars, batchVars, auxVars>>

\* image.rs:80-81: the next frame of the loop is converted
XLoopConvert ==
    /\ xpc = "loop"
    /\ xi <= Len(xframes)
    /\ \E converted \in BOOLEAN :
          IF converted
          THEN /\ xpc' = "loop_save"
               /\ xlog' = Append(xlog, <<"convert", xframes[xi]>>)
               /\ UNCHANGED xresult
          ELSE /\ XFinish(Err("conversion failed"))
               /\ UNCHANGED xlog
    /\ UNCHANGED <<xargs, xin, xframes, xopts, xi, xfs, statsVars, transVars, storeVars, batchVars, auxVars>>

\* image.rs:82-88: the converted frame is saved to its numbered file
XLoopSave ==
    /\ xpc = "loop_save"
    /\ \E how \in SaveOutcomes :
          /\ xfs' = Written(xfs, frame_path(base_output(req), xframes[xi], req.format),
                            xframes[xi], how)
          /\ IF how = "saved"
             THEN /\ xlog' = Append(xlog, <<"save", xframes[xi]>>)
                  /\ xi' = xi + 1
                  /\ xpc' = "loop"
                  /\ UNCHANGED xresult
             ELSE /\ XFinish(Err("Failed to save image"))
                  /\ UNCHANGED <<xlog, xi>>
    /\ UNCHANGED <<xargs, xin, xframes, xopts, statsVars, transVars, storeVars, batchVars, auxVars>>

\* image.rs:89-91: the loop is over
XReturn ==
    /\ xpc = "loop"
    /\ xi > Len(xframes)
    /\ XFinish(Ok("saved"))
    /\ UNCHANGED <<xargs, xin, xframes, xopts, xi, xlog, xfs, statsVars, transVars, storeVars, batchVars, auxVars>>

StatsIdle ==
    /\ file = "missing" /\ decoded = NoPixels
    /\ call = "none" /\ arg = None /\ values = << >> /\ result = None
    /\ opens = 0 /\ decodes = 0

InitExport ==
    /\ \/ xargs = None /\ xin \in {Some(r) : r \in ExportRequests} /\ xpc = "open"
       \/ xargs \in {Some(a) : a \in ToImageArgs} /\ xin = None /\ xpc = "cli"
    /\ xframes = << >> /\ xopts = None /\ xi = 0
    /\ xlog = << >> /\ xfs = {} /\ xresult = None
    /\ StatsIdle /\ TranscodeIdle /\ StoreIdle /\ BatchIdle /\ AuxIdle

NextExport ==
    \/ XCli
    \/ XOpen
    \/ XDecode
    \/ XSelect
    \/ XSingleConvert
    \/ XSingleSave
    \/ XMulti
    \/ XLoopConvert
    \/ XLoopSave
    \/ XReturn

SpecExport == InitExport /\ [][NextExport]_vars

(***************************************************************************)
(* Properties of the raster exporter, under SpecExport.                    *)
(***************************************************************************)
\* the conversions and saves of the call, in the order they happened
FrameEvents == SelectSeq(xlog, LAMBDA e : e[1] \in {"convert", "save"})

FrameOutOfRange ==
    /\ xin # None
    /\ req.options.frame # None
    /\ Unwrap(req.options.frame) >= req.num_frames

\* C4: an export whose explicit frame index is >= the frame count returns an
\* error, not a panic, and at no point of the call has a frame been converted
\* or an image file been created.
C4_FrameOutOfRangeWritesNothing ==
    FrameOutOfRange
    => /\ FrameEvents = << >>
       /\ xfs = {}
       /\ xpc = "done" =>
             /\ ~Unwrap(xresult).ok
             /\ Unwrap(xresult).err # "panic"
             /\ req.file = "ok" =>
                   Unwrap(xresult).err = "Requested frame out of range"

C4_Witness ==
    /\ xpc = "done"
    /\ xin # None
    /\ req.file = "ok"
    /\ req.num_frames = 2
    /\ req.options.frame = Some(2)
    /\ xresult = Some(Err("Requested frame out of range"))
    /\ xfs = {}

\* C5: with no explicit frame and more than one frame, the call converts and
\* saves the frames in ascending index order, frame i saved before frame i+1
\* is converted, none skipped and none twice; when it returns Ok it has written
\* exactly one complete image per frame 0..frameCount-1, each to its own file.
C5_FramesAscendingOnePerIndex ==
    (xin # None /\ req.options.frame = None /\ req.num_frames > 1)
    => /\ \A k \in DOMAIN FrameEvents :
             FrameEvents[k] = <<(IF k % 2 = 1 THEN "convert" ELSE "save"), (k - 1) \div 2>>
       /\ (xpc = "done" /\ Unwrap(xresult).ok) =>
             /\ Len(FrameEvents) = 2 * req.num_frames
             /\ Cardinality(xfs) = req.num_frames
             /\ \A i \in 0..(req.num_frames - 1) :
                   [path |-> frame_path(base_output(req), i, req.format),
                    frame |-> i, complete |-> TRUE] \in xfs

C5_Witness ==
    /\ xpc = "done"
    /\ xin # None
    /\ req.options.frame = None
    /\ req.num_frames = 3
    /\ Unwrap(xresult).ok
    /\ FrameEvents = <<<<"convert", 0>>, <<"save", 0>>, <<"convert", 1>>,
                       <<"save", 1>>, <<"convert", 2>>, <<"save", 2>>>>
    /\ Cardinality(xfs) = 3

\* exactly one frame is exported: an explicit frame, or a single-frame buffer
OneFrameExported == req.options.frame # None \/ req.num_frames = 1

\* C21: when exactly one frame is exported, nothing but the base output path
\* is ever written, and an Ok call has written that frame there; otherwise
\* every file written holds a frame i at <stem>_frame<i in 3 digits>.<format>
\* in the base output's directory, two different frames never share a
\* destination, and the base output path itself is never written.
C21_ExportDestinations ==
    xin # None =>
       IF OneFrameExported
       THEN /\ \A f \in xfs : f.path = base_output(req)
            /\ (xpc = "done" /\ Unwrap(xresult).ok) =>
                  xfs = {[path |-> base_output(req), frame |-> xframes[1],
                          complete |-> TRUE]}
       ELSE /\ \A f \in xfs :
                  /\ f.path.dir = base_output(req).dir
                  /\ f.path.ext = Some(req.format)
                  /\ f.path.stem =
                        Some(Unwrap(base_output(req).stem) \o <<"_frame">>
                             \o (IF f.frame < 10 THEN <<"0", "0">>
                                 ELSE IF f.frame < 100 THEN <<"0">> ELSE << >>)
                             \o [k \in DOMAIN Digits(f.frame) |->
                                    DigitChars[Digits(f.frame)[k] + 1]])
                  /\ f.path # base_output(req)
            /\ \A f, g \in xfs : f.frame # g.frame => f.path # g.path

C21_Witness ==
    /\ xpc = "done"
    /\ xin # None
    /\ req.output = None
    /\ req.num_frames = 3
    /\ Unwrap(xresult).ok
    /\ {f.path : f \in xfs} =
          {[dir |-> "in", stem |-> Some(<<"scan", "_frame", "0", "0", d>>),
            ext |-> Some("png")] : d \in {"0", "1", "2"}}

\* C27: the conversion options built for an export carry one VOI mode, chosen
\* by precedence: identity when disable_voi_lut is set, whatever else is set;
\* otherwise the custom window when one is supplied, even with normalize;
\* otherwise normalize when it is set; otherwise the default.  The modality
\* step is off exactly when disable_modality_lut is set.
C27_VoiPrecedence ==
    (xin # None /\ xopts # None) =>
       LET o == req.options
           voi == Unwrap(xopts).voi_lut
       IN /\ o.disable_voi_lut => voi = <<"Identity">>
          /\ (~o.disable_voi_lut /\ o.window # None) =>
                voi = <<"Custom", Unwrap(o.window)>>
          /\ (~o.disable_voi_lut /\ o.window = None /\ o.normalize) =>
                voi = <<"Normalize">>
          /\ (~o.disable_voi_lut /\ o.window = None /\ ~o.normalize) =>
                voi = <<"Default">>
          /\ Unwrap(xopts).modality_lut = "None" <=> o.disable_modality_lut
          /\ Unwrap(xopts).modality_lut \in {"None", "Default"}

C27_Witness ==
    /\ xin # None
    /\ xopts # None
    /\ ~req.options.disable_voi_lut
    /\ req.options.normalize
    /\ req.options.window = Some([center |-> 40, width |-> 400])
    /\ req.options.disable_modality_lut
    /\ Unwrap(xopts).voi_lut = <<"Custom", [center |-> 40, width |-> 400]>>
    /\ Unwrap(xopts).modality_lut = "None"

\* the frames whose image file is complete
FramesWritten == {f.frame : f \in {g \in xfs : g.complete}}

\* C28: in a multi-frame export the frames whose image was written are at
\* every point a prefix 0..j-1 of the frame indices; when converting or saving
\* frame k fails the call returns that error with no later conversion or save,
\* the images of frames 0..k-1 are all there, and there is no image of frame k
\* or of a later frame (a failed save may leave an incomplete file at the
\* destination of frame k, and nowhere else).
C28_FailureLeavesPrefix ==
    (xin # None /\ ~OneFrameExported) =>
       /\ \E j \in 0..req.num_frames : FramesWritten = 0..(j - 1)
       /\ (/\ xpc = "done"
           /\ ~Unwrap(xresult).ok
           /\ Unwrap(xresult).err \in {"conversion failed", "Failed to save image"}) =>
             LET k == xframes[xi]
                 saving == Unwrap(xresult).err = "Failed to save image"
             IN /\ FramesWritten = 0..(k - 1)
                /\ Len(FrameEvents) = 2 * k + (IF saving THEN 1 ELSE 0)
                /\ \A f \in xfs :
                      /\ f.frame <= k
                      /\ f.frame = k =>
                            /\ saving
                            /\ f.path = frame_path(base_output(req), k, req.format)

C28_Witness ==
    /\ xpc = "done"
    /\ xin # None
    /\ req.options.frame = None
    /\ req.num_frames = 3
    /\ xresult = Some(Err("Failed to save image"))
    /\ xframes[xi] = 2
    /\ FramesWritten = {0, 1}
    /\ \E f \in xfs : f.frame = 2 /\ ~f.complete

\* the request, as given on the command line or in the options record, sets
\* both force_8bit and force_16bit
BothForced ==
    \/ xargs # None /\ Unwrap(xargs).force_8bit /\ Unwrap(xargs).force_16bit
    \/ xin # None /\ req.options.force_8bit /\ req.options.force_16bit

\* the call has decoded the pixel data of its file
HasDecodedPixels == \E k \in DOMAIN xlog : xlog[k][1] = "decode"

\* C12: an export request that sets both force_8bit and force_16bit, given as
\* CLI flags or as an ImageExportOptions record passed to convert, is rejected
\* with an error before any conversion begins: no conversion options are built
\* from it, no frame is converted, no image is written, and the call ends in
\* an error.
C12_ForceConflictRejected ==
    BothForced
    => /\ xopts = None
       /\ FrameEvents = << >>
       /\ xfs = {}
       /\ xpc = "done" => ~Unwrap(xresult).ok

\* the request carries a custom window whose width is zero or negative
NonPositiveWidth ==
    \/ /\ xargs # None
       /\ Unwrap(xargs).window_width # None
       /\ Unwrap(Unwrap(xargs).window_width) <= 0
    \/ /\ xin # None
       /\ req.options.window # None
       /\ Unwrap(req.options.window).width <= 0

\* C13: an export request with a custom window of zero or negative width is
\* rejected before computation begins: the call never decodes pixel data,
\* converts no frame, writes no image, and ends in an error.
C13_NonPositiveWidthRejected ==
    NonPositiveWidth
    => /\ ~HasDecodedPixels
       /\ FrameEvents = << >>
       /\ xfs = {}
       /\ xpc = "done" => ~Unwrap(xresult).ok

(***************************************************************************)
(* transcode.rs: the uncompressed transcoder.                              *)
(*                                                                         *)
(* A data set is a sequence of elements [tag, vr, value] in ascending tag  *)
(* order (InMemDicomObject keeps a map ordered by tag).  Pixel data is a   *)
(* sequence of bytes; integers of the model stay below 2^31, so two's      *)
(* complement is computed bytewise.                                        *)
(***************************************************************************)
MaxPixels == 2       \* largest number of pixels of a transcoded image

TagSOPClassUID == <<8, 22>>             \* (0008,0016)
TagSOPInstanceUID == <<8, 24>>          \* (0008,0018)
TagPatientName == <<16, 16>>            \* (0010,0010)
TagRows == <<40, 16>>                   \* (0028,0010)
TagColumns == <<40, 17>>                \* (0028,0011)
TagBitsAllocated == <<40, 256>>         \* (0028,0100)
TagPixelRepresentation == <<40, 259>>   \* (0028,0103)
TagPixelData == <<32736, 16>>           \* (7FE0,0010)
TagTrailingPadding == <<65532, 65532>>  \* (FFFC,FFFC)

TagLess(a, b) == a[1] < b[1] \/ (a[1] = b[1] /\ a[2] < b[2])

Elem(tag, vr, value) == [tag |-> tag, vr |-> vr, value |-> value]

HasTag(ds, tag) == \E i \in DOMAIN ds : ds[i].tag = tag
Element(ds, tag) == ds[CHOOSE i \in DOMAIN ds : ds[i].tag = tag]

\* A put that adds the element at the end, whatever the data set holds.
PutAppends(ds, e) == ds \o <<e>>

\* InMemDicomObject::put: replaces the element of the same tag, or inserts the
\* element at its place in tag order
Put(ds, e) ==
    LET before == SelectSeq(ds, LAMBDA x : TagLess(x.tag, e.tag))
        after == SelectSeq(ds, LAMBDA x : TagLess(e.tag, x.tag))
    IN before \o <<e>> \o after

\* the n little-endian bytes of v in two's complement
RECURSIVE BytesOfNat(_, _)
BytesOfNat(v, n) ==
    IF n = 0 THEN << >> ELSE <<v % 256>> \o BytesOfNat(v \div 256, n - 1)

LeBytes(v, n) ==
    IF v >= 0 THEN BytesOfNat(v, n)
    ELSE LET b == BytesOfNat(-v - 1, n) IN [k \in 1..n |-> 255 - b[k]]

RECURSIVE NatOfBytes(_)
NatOfBytes(b) ==
    IF b = << >> THEN 0 ELSE Head(b) + 256 * NatOfBytes(Tail(b))

\* the value of little-endian bytes, read as unsigned or as two's complement
FromLeBytes(b, signed) ==
    IF signed /\ b[Len(b)] >= 128
    THEN -NatOfBytes([k \in DOMAIN b |-> 255 - b[k]]) - 1
    ELSE NatOfBytes(b)

RECURSIVE Flatten(_)
Flatten(ss) == IF ss = << >> THEN << >> ELSE Head(ss) \o Flatten(Tail(ss))

\* the native byte stream of a sequence of samples of the given width
PackSamples(samples, bits) ==
    Flatten([i \in DOMAIN samples |-> LeBytes(samples[i], bits \div 8)])

\* The sample values a source image may hold, by width and signedness.
SampleValues(bits, signed) ==
    IF bits = 8 THEN (IF signed THEN {-128, -1, 0, 127} ELSE {0, 64, 128, 255})
    ELSE IF bits = 16 THEN (IF signed THEN {-32768, -1, 0, 32767}
                            ELSE {0, 255, 256, 65535})
    ELSE (IF signed THEN {-1, 0, 65536} ELSE {0, 65535, 65536})

\* The SOP Class UID and SOP Instance UID elements of a source: absent, a
\* UID string, or (in a malformed file) an element whose value is a sequence
\* of items, which has no string form.  A UID is its logical string, without
\* the padding byte of its encoding.
SOPClassValues ==
    {None,
     Some(Elem(TagSOPClassUID, "UI", "1.2.840.10008.5.1.4.1.1.2")),
     Some(Elem(TagSOPClassUID, "SQ", << >>))}
SOPInstanceValues ==
    {None,
     Some(Elem(TagSOPInstanceUID, "UI", "1.2.826.0.1.3680043.2.1125.1")),
     Some(Elem(TagSOPInstanceUID, "SQ", << >>))}

\* elements a source may carry after its pixel data
TrailingElements == {<< >>, <<Elem(TagTrailingPadding, "OB", <<0, 0>>)>>}

\* the data set of a source image
SourceDataset(bits, signed, samples, sop_class, sop_instance) ==
    (IF sop_class = None THEN << >> ELSE <<Unwrap(sop_class)>>)
    \o (IF sop_instance = None THEN << >> ELSE <<Unwrap(sop_instance)>>)
    \o <<Elem(TagPatientName, "PN", "Test^Patient"),
         Elem(TagRows, "US", 1),
         Elem(TagColumns, "US", Len(samples)),
         Elem(TagBitsAllocated, "US", bits),
         Elem(TagPixelRepresentation, "US", IF signed THEN 1 ELSE 0),
         Elem(TagPixelData, IF bits > 8 THEN "OW" ELSE "OB",
              PackSamples(samples, bits))>>

\* decode_pixel_data on a native data set: the image attributes and the
\* bytes of rows * columns samples; an error when the pixel data is shorter.
DecodePixelData(ds) ==
    LET bits == Element(ds, TagBitsAllocated).value
        n == Element(ds, TagRows).value * Element(ds, TagColumns).value
        data == Element(ds, TagPixelData).value
    IN IF Len(data) < n * (bits \div 8)
       THEN Err("Failed to decode pixel data")
       ELSE Ok([bits_allocated |-> bits,
                signed |-> Element(ds, TagPixelRepresentation).value = 1,
                data |-> SubSeq(data, 1, n * (bits \div 8))])

\* the native samples of decoded pixel data, by its width and signedness
NativeSamples(d) ==
    LET w == d.bits_allocated \div 8
    IN [i \in 1..(Len(d.data) \div w) |->
           FromLeBytes(SubSeq(d.data, (i - 1) * w + 1, i * w), d.signed)]

\* num_traits::NumCast to u8 / u16: None when the value does not fit
NumCast(v, T) ==
    LET top == IF T = "u8" THEN 255 ELSE 65535
    IN IF 0 <= v /\ v <= top THEN Some(v) ELSE None

\* what to_vec_with_options does with 32-bit samples depends on the version
\* of the pixel data library the build links: it rejects the width, or it
\* casts each value like the 16-bit ones
Lib32Behaviours == {"InvalidBitsAllocated", "NumCast"}

\* DecodedPixelData::to_vec_with_options::<T> with ModalityLutOption::None and
\* VoiLutOption::Identity: every sample cast to T.  8-bit data is read as
\* bytes; 16-bit data as u16 or, when signed, as i16.
to_vec_with_options(d, T, lib32) ==
    LET source == IF d.bits_allocated = 8
                  THEN NativeSamples([d EXCEPT !.signed = FALSE])
                  ELSE NativeSamples(d)
        cast == [i \in DOMAIN source |-> NumCast(source[i], T)]
    IN IF d.bits_allocated = 32 /\ lib32 = "InvalidBitsAllocated"
       THEN Err("Failed to convert decoded pixels to vector")
       ELSE IF \E i \in DOMAIN cast : cast[i] = None
       THEN Err("Failed to convert decoded pixels to vector")
       ELSE Ok([i \in DOMAIN cast |-> Unwrap(cast[i])])

\* The two bytes of a u16, high-order byte first.
to_be_bytes(v) == <<v \div 256, v % 256>>

\* u16::to_le_bytes
to_le_bytes(v) == <<v % 256, v \div 256>>

\* transcode.rs:49-62: the pixel payload
pixel_bytes(d, lib32) ==
    IF d.bits_allocated > 8
    THEN LET words == to_vec_with_options(d, "u16", lib32)
         IN IF ~words.ok THEN words
            ELSE Ok(Flatten([i \in DOMAIN words.val |-> to_le_bytes(words.val[i])]))
    ELSE to_vec_with_options(d, "u8", lib32)

\* A representation that is OW whatever the width.
pixel_vr_always_wide(bits_allocated) == "OW"

\* transcode.rs:73: the representation of the new pixel data element
pixel_vr(bits_allocated) == IF bits_allocated > 8 THEN "OW" ELSE "OB"

\* An identifier that is the explicit VR one for both targets.
uid_explicit_for_both(target_ts) == "1.2.840.10008.1.2.1"

\* UncompressedTransferSyntax::uid
uid(target_ts) ==
    IF target_ts = "ExplicitVRLittleEndian" THEN "1.2.840.10008.1.2.1"
    ELSE "1.2.840.10008.1.2"

\* DataElement::to_str: the string form of a primitive value; a sequence of
\* items has none
to_str(e) ==
    IF e.vr = "SQ" THEN Err("ConvertValueError") ELSE Ok(e.value)

\* An identifier that is copied only when both SOP elements are present.
sop_uid_both_or_neither(ds, tag, placeholder) ==
    IF /\ HasTag(ds, TagSOPClassUID) /\ to_str(Element(ds, TagSOPClassUID)).ok
       /\ HasTag(ds, TagSOPInstanceUID) /\ to_str(Element(ds, TagSOPInstanceUID)).ok
    THEN to_str(Element(ds, tag)).val
    ELSE placeholder

\* transcode.rs:86-96: element(tag).ok().and_then(|e| e.to_str().ok())
\* .unwrap_or(placeholder)
sop_uid(ds, tag, placeholder) ==
    IF HasTag(ds, tag) /\ to_str(Element(ds, tag)).ok
    THEN to_str(Element(ds, tag)).val
    ELSE placeholder

\* transcode.rs:98-102
file_meta(ds, target_ts) ==
    [transfer_syntax |-> uid(target_ts),
     media_storage_sop_class_uid |->
         sop_uid(ds, TagSOPClassUID, "1.2.840.10008.5.1.4.1.1.7"),
     media_storage_sop_instance_uid |->
         sop_uid(ds, TagSOPInstanceUID, "1.2.3.4.5")]

\* a binary value is written with an even length, padded with a zero byte
EvenLength(e) ==
    IF e.vr \in {"OB", "OW"} /\ Len(e.value) % 2 = 1
    THEN [e EXCEPT !.value = Append(@, 0)]
    ELSE e

\* transcode.rs:104-111: every element of new_obj, in its iteration (tag)
\* order, is put into the empty file object
RECURSIVE PutAll(_, _)
PutAll(file_obj, elems) ==
    IF elems = << >> THEN file_obj
    ELSE PutAll(Put(file_obj, Head(elems)), Tail(elems))

\* write_to_file followed by open_file: the meta header and the elements a
\* reader finds in the file
Stored(meta, ds) ==
    [complete |-> TRUE, meta |-> meta,
     dataset |-> [i \in DOMAIN ds |-> EvenLength(ds[i])]]

\* a file whose writing stopped half way
Incomplete == [complete |-> FALSE]

ImageFormats == {8, 16, 32} \X BOOLEAN

\* the transfer syntax of the source file: explicit VR little endian, implicit
\* VR little endian, or an encapsulated one the decoder decompresses
SourceTransferSyntaxes ==
    {"1.2.840.10008.1.2.1", "1.2.840.10008.1.2", "1.2.840.10008.1.2.5"}

\* transcode.rs:35: `input` is the path "in.dcm"; `output` is any path, the
\* one of the input included
InputName == "in.dcm"
OutputNames == {"out.dcm", InputName}

\* a call of transcode: the source file and the requested target
TranscodeRequest(f, fmt, samples, c, u, trail, sts, ts, lib, out) ==
    [file |-> f,
     output |-> out,
     source_ts |-> sts,
     dataset |-> SourceDataset(fmt[1], fmt[2], samples, c, u) \o trail,
     target_ts |-> ts,
     lib32 |-> lib]

TargetTransferSyntaxes == {"ExplicitVRLittleEndian", "ImplicitVRLittleEndian"}

treq == Unwrap(tin)

TFinish(r) == tpc' = "done" /\ tresult' = Some(r)

\* An open that creates the output file before it reads the source.
TOpenCreatesOutput ==
    /\ tpc = "open"
    /\ tout' = Some(Incomplete)
    /\ IF treq.file = "missing"
       THEN TFinish(Err("Failed to open DICOM file"))
       ELSE tpc' = "decode" /\ UNCHANGED tresult
    /\ UNCHANGED <<tin, tbytes, tobj, statsVars, exportVars, storeVars, batchVars, auxVars>>

\* transcode.rs:36
TOpen ==
    /\ tpc = "open"
    /\ IF treq.file = "missing"
       THEN TFinish(Err("Failed to open DICOM file"))
       ELSE tpc' = "decode" /\ UNCHANGED tresult
    /\ UNCHANGED <<tin, tbytes, tobj, tout, statsVars, exportVars, storeVars, batchVars, auxVars>>

\* transcode.rs:40-42
TDecode ==
    /\ tpc = "decode"
    /\ IF treq.file = "undecodable" \/ ~DecodePixelData(treq.dataset).ok
       THEN TFinish(Err("Failed to decode pixel data"))
       ELSE tpc' = "convert" /\ UNCHANGED tresult
    /\ UNCHANGED <<tin, tbytes, tobj, tout, statsVars, exportVars, storeVars, batchVars, auxVars>>

\* transcode.rs:46-62
TConvert ==
    /\ tpc = "convert"
    /\ LET bytes == pixel_bytes(DecodePixelData(treq.dataset).val, treq.lib32)
       IN IF ~bytes.ok
          THEN TFinish(bytes) /\ UNCHANGED tbytes
          ELSE tbytes' = bytes.val /\ tpc' = "put" /\ UNCHANGED tresult
    /\ UNCHANGED <<tin, tobj, tout, statsVars, exportVars, storeVars, batchVars, auxVars>>

\* transcode.rs:65-79: the pixel data element is replaced in the data set
TPut ==
    /\ tpc = "put"
    /\ tobj' = Some(Put(treq.dataset,
                        Elem(TagPixelData,
                             pixel_vr(Element(treq.dataset, TagBitsAllocated).value),
                             tbytes)))
    /\ tpc' = "write"
    /\ UNCHANGED <<tin, tbytes, tout, tresult, statsVars, exportVars, storeVars, batchVars, auxVars>>

\* transcode.rs:86-118: the meta header is rebuilt and the file written; a
\* failed write leaves no file or an incomplete one
TWrite ==
    /\ tpc = "write"
    /\ \E how \in {"written", "failed_no_file", "failed_partial"} :
          /\ tout' = IF how = "written"
                     THEN Some(Stored(file_meta(Unwrap(tobj), treq.target_ts),
                                      PutAll(<< >>, Unwrap(tobj))))
                     ELSE IF how = "failed_partial" THEN Some(Incomplete)
                     ELSE tout
          /\ TFinish(IF how = "written" THEN Ok("written")
                     ELSE Err("Failed to write output file"))
    /\ UNCHANGED <<tin, tbytes, tobj, statsVars, exportVars, storeVars, batchVars, auxVars>>

InitTranscode ==
    /\ \E fmt \in ImageFormats, c \in SOPClassValues, u \in SOPInstanceValues,
          trail \in TrailingElements, sts \in SourceTransferSyntaxes,
          ts \in TargetTransferSyntaxes, lib \in Lib32Behaviours, out \in OutputNames :
          \/ \E samples \in SeqsUpTo(SampleValues(fmt[1], fmt[2]), MaxPixels) \ {<< >>} :
                tin = Some(TranscodeRequest("ok", fmt, samples, c, u, trail, sts, ts, lib, out))
          \/ \E f \in {"missing", "undecodable"} :
                tin = Some(TranscodeRequest(f, fmt, <<0>>, c, u, trail, sts, ts, lib, out))
    /\ tpc = "open" /\ tbytes = << >> /\ tobj = None /\ tout = None
    /\ tresult = None
    /\ StatsIdle /\ ExportIdle /\ StoreIdle /\ BatchIdle /\ AuxIdle

NextTranscode ==
    \/ TOpen
    \/ TDecode
    \/ TConvert
    \/ TPut
    \/ TWrite

SpecTranscode == InitTranscode /\ [][NextTranscode]_vars

(***************************************************************************)
(* Properties of the transcoder, under SpecTranscode.                      *)
(***************************************************************************)
SourceDecoded == DecodePixelData(treq.dataset)

\* the output file re-decodes to exactly the native samples of the source
OutputPreservesSamples ==
    /\ tout # None
    /\ Unwrap(tout).complete
    /\ DecodePixelData(Unwrap(tout).dataset).ok
    /\ NativeSamples(DecodePixelData(Unwrap(tout).dataset).val)
         = NativeSamples(SourceDecoded.val)

\* C3: for every source whose pixel data decodes (8, 16 or 32 bits allocated,
\* signed or unsigned) and either target, the transcode succeeds (short of a
\* failure to write the file) and re-decoding its output yields the same
\* sequence of native samples as the source.
C3_TranscodePreservesSamples ==
    (/\ tpc = "done"
     /\ treq.file = "ok"
     /\ SourceDecoded.ok
     /\ tresult # Some(Err("Failed to write output file")))
    => /\ Unwrap(tresult).ok
       /\ OutputPreservesSamples

\* the payload has been built: the call is past transcode.rs:62
PayloadBuilt == tpc \in {"put", "write"} \/ (tpc = "done" /\ tobj # None)

\* the number of samples of the source image, from its Rows and Columns
SampleCount ==
    Element(treq.dataset, TagRows).value * Element(treq.dataset, TagColumns).value

SourceBits == Element(treq.dataset, TagBitsAllocated).value

\* the native samples of the source, in order
SourceSamples == NativeSamples(SourceDecoded.val)

Succeeded == tpc = "done" /\ Unwrap(tresult).ok

\* C14: whenever the transcoder has built its pixel payload, the payload is
\* the native samples in order: with BitsAllocated <= 8 it has N bytes, byte i
\* being sample i; with BitsAllocated > 8 it has 2N bytes, sample i in bytes
\* 2i (low-order byte) and 2i+1 (high-order byte), counting from 0.
C14_PayloadPackedByWidth ==
    PayloadBuilt
    => /\ SourceBits <= 8 =>
             /\ Len(tbytes) = SampleCount
             /\ \A i \in 1..SampleCount :
                   tbytes[i] = (SourceSamples[i] + 256) % 256
       /\ SourceBits > 8 =>
             /\ Len(tbytes) = 2 * SampleCount
             /\ \A i \in 1..SampleCount :
                   /\ tbytes[2 * i - 1] = SourceSamples[i] % 256
                   /\ tbytes[2 * i] = (SourceSamples[i] \div 256) % 256

C14_Witness ==
    /\ Succeeded
    /\ SourceBits = 16
    /\ SourceSamples = <<256, 65535>>
    /\ tbytes = <<0, 1, 255, 255>>

\* the elements of a data set other than pixel data, in order
OtherElements(ds) == SelectSeq(ds, LAMBDA e : e.tag # TagPixelData)

PixelDataCount(ds) == Cardinality({i \in DOMAIN ds : ds[i].tag = TagPixelData})

\* C15: the data set handed to the writer, and the data set of the file a
\* successful transcode wrote, hold exactly one pixel data element, at the
\* place the source had it, and every other element of the source with the
\* same tag, representation and value, in the same order.
C15_OtherAttributesUnchanged ==
    /\ tobj # None =>
          /\ PixelDataCount(Unwrap(tobj)) = 1
          /\ OtherElements(Unwrap(tobj)) = OtherElements(treq.dataset)
    /\ Succeeded =>
          LET out == Unwrap(tout).dataset
          IN /\ PixelDataCount(out) = 1
             /\ OtherElements(out) = OtherElements(treq.dataset)
             /\ Len(out) = Len(treq.dataset)
             /\ \A i \in DOMAIN out : out[i].tag = treq.dataset[i].tag

C15_Witness ==
    /\ Succeeded
    /\ HasTag(treq.dataset, TagSOPClassUID)
    /\ HasTag(treq.dataset, TagTrailingPadding)
    /\ Len(Unwrap(tout).dataset) = 8
    /\ Unwrap(tout).dataset[8].tag = TagTrailingPadding
    /\ Unwrap(tout).dataset[7].tag = TagPixelData

\* C16: the meta header of the file a successful transcode wrote carries
\* 1.2.840.10008.1.2.1 for the explicit VR little endian target and
\* 1.2.840.10008.1.2 for the implicit one, whatever the transfer syntax of the
\* source; the two identifiers differ.
C16_TargetTransferSyntaxInMeta ==
    /\ uid("ExplicitVRLittleEndian") # uid("ImplicitVRLittleEndian")
    /\ Succeeded =>
          Unwrap(tout).meta.transfer_syntax =
              (IF treq.target_ts = "ExplicitVRLittleEndian"
               THEN "1.2.840.10008.1.2.1" ELSE "1.2.840.10008.1.2")

C16_Witness ==
    /\ Succeeded
    /\ treq.source_ts = "1.2.840.10008.1.2.5"
    /\ treq.target_ts = "ImplicitVRLittleEndian"
    /\ Unwrap(tout).meta.transfer_syntax = "1.2.840.10008.1.2"

\* C17: the pixel data element the transcoder builds is OW exactly when
\* BitsAllocated > 8 and OB otherwise, and its value has two bytes per sample
\* when it is OW and one byte per sample when it is OB; the file written
\* carries the element with that representation.
C17_PixelVrMatchesWidth ==
    /\ tobj # None =>
          LET e == Element(Unwrap(tobj), TagPixelData)
          IN /\ e.vr = (IF SourceBits > 8 THEN "OW" ELSE "OB")
             /\ e.vr = "OW" => Len(e.value) = 2 * SampleCount
             /\ e.vr = "OB" => Len(e.value) = SampleCount
    /\ Succeeded =>
          Element(Unwrap(tout).dataset, TagPixelData).vr
              = (IF SourceBits > 8 THEN "OW" ELSE "OB")

C17_Witness ==
    /\ Succeeded
    /\ SourceBits = 8
    /\ SampleCount = 2
    /\ Element(Unwrap(tout).dataset, TagPixelData).vr = "OB"
    /\ Len(Element(Unwrap(tobj), TagPixelData).value) = 2

\* the element is in the source data set and has a string form
Readable(tag) ==
    HasTag(treq.dataset, tag) /\ Element(treq.dataset, tag).vr # "SQ"

MetaOut == Unwrap(tout).meta

\* C18 as stated: in the meta header of a transcode output the SOP class and
\* SOP instance identifiers are those of the data set whenever the elements
\* are present and readable, and each is its placeholder only when its
\* element is absent from the data set.
C18_PlaceholderOnlyWhenAbsent ==
    Succeeded
    => /\ Readable(TagSOPClassUID) =>
             MetaOut.media_storage_sop_class_uid
                 = Element(treq.dataset, TagSOPClassUID).value
       /\ Readable(TagSOPInstanceUID) =>
             MetaOut.media_storage_sop_instance_uid
                 = Element(treq.dataset, TagSOPInstanceUID).value
       /\ MetaOut.media_storage_sop_class_uid = "1.2.840.10008.5.1.4.1.1.7" =>
             ~HasTag(treq.dataset, TagSOPClassUID)
       /\ MetaOut.media_storage_sop_instance_uid = "1.2.3.4.5" =>
             ~HasTag(treq.dataset, TagSOPInstanceUID)

\* C18, amended: each identifier of the meta header is the string of its own
\* data set element when that element is present and readable, and its
\* placeholder exactly when the element is absent or has no string form,
\* whatever the state of the other element.
C18_PlaceholderWhenAbsentOrUnreadable ==
    Succeeded
    => /\ MetaOut.media_storage_sop_class_uid =
             (IF Readable(TagSOPClassUID)
              THEN Element(treq.dataset, TagSOPClassUID).value
              ELSE "1.2.840.10008.5.1.4.1.1.7")
       /\ MetaOut.media_storage_sop_instance_uid =
             (IF Readable(TagSOPInstanceUID)
              THEN Element(treq.dataset, TagSOPInstanceUID).value
              ELSE "1.2.3.4.5")

C18_Witness ==
    /\ Succeeded
    /\ Readable(TagSOPClassUID)
    /\ HasTag(treq.dataset, TagSOPInstanceUID)
    /\ ~Readable(TagSOPInstanceUID)
    /\ MetaOut.media_storage_sop_class_uid = "1.2.840.10008.5.1.4.1.1.2"
    /\ MetaOut.media_storage_sop_instance_uid = "1.2.3.4.5"

\* the call wrote, completely or in part, to the path of its input file
InputFileModified == treq.output = InputName /\ tout # None

\* nothing is written to the output path before the final write, and a call
\* that failed before it has written nothing
WriteIsFinalStep ==
    /\ tout # None =>
          /\ tpc = "done"
          /\ Unwrap(tresult).ok \/ Unwrap(tresult).err = "Failed to write output file"
    /\ (/\ tpc = "done"
        /\ ~Unwrap(tresult).ok
        /\ Unwrap(tresult).err # "Failed to write output file") => tout = None

Dot == <<".">>
DotDot == <<".", ".">>

\* the pieces of s between occurrences of sep
RECURSIVE SplitOn(_, _)
SplitOn(s, sep) ==
    IF \A i \in DOMAIN s : s[i] # sep THEN <<s>>
    ELSE LET i == CHOOSE k \in DOMAIN s :
                      s[k] = sep /\ \A j \in 1..(k - 1) : s[j] # sep
         IN <<SubSeq(s, 1, i - 1)>> \o SplitOn(SubSeq(s, i + 1, Len(s)), sep)

\* Path::new(s) seen through Path::components: absolute when s starts with
\* "/"; empty components and "." are dropped
PathOf(s) ==
    [abs |-> s # << >> /\ s[1] = "/",
     comps |-> SelectSeq(SplitOn(s, "/"), LAMBDA c : c # << >> /\ c # Dot)]

\* Path::join: an absolute name replaces the base
join(base, name) ==
    LET p == PathOf(name)
    IN IF p.abs THEN p ELSE [abs |-> base.abs, comps |-> base.comps \o p.comps]

\* Path::file_name: the last component, unless it is ".."
file_name(p) ==
    IF p.comps = << >> \/ p.comps[Len(p.comps)] = DotDot THEN None
    ELSE Some(p.comps[Len(p.comps)])

\* Path::file_stem: the file name up to its last ".", the whole name when it
\* has no "." or only a leading one
file_stem(p) ==
    IF file_name(p) = None THEN None
    ELSE LET n == Unwrap(file_name(p))
             dots == {i \in DOMAIN n : n[i] = "."}
             last == CHOOSE i \in dots : \A j \in dots : j <= i
         IN IF dots = {} THEN Some(n)
            ELSE IF last = 1 THEN Some(n)
            ELSE Some(SubSeq(n, 1, last - 1))

\* storage.rs:78-84: keeps ASCII alphanumerics, '-' and '_'
UnsafeTokens == {"/", ".", " ", "^"}
sanitize_filename(input) == SelectSeq(input, LAMBDA c : c \notin UnsafeTokens)

\* the contents uploaded, and hex::encode(Sha256::digest(bytes))[..12]
Contents == {"abc", ""}
Hash12(bytes) == IF bytes = "abc" THEN "ba7816bf8f01" ELSE "e3b0c44298fc"

\* storage.rs:30-37: the name save stores the bytes under
save_name(original_name, bytes) ==
    LET stem == IF original_name = None THEN None
                ELSE file_stem(PathOf(Unwrap(original_name)))
        clean == IF stem = None THEN None ELSE Some(sanitize_filename(Unwrap(stem)))
    IN (IF clean = None \/ clean = Some(<< >>) THEN <<"dicom">> ELSE Unwrap(clean))
       \o <<"-", Hash12(bytes), ".", "dcm">>

\* the process's working directory
Cwd == <<<<"app">>>>

Exists(fs, p) == \E e \in fs : e.path = p
Entry(fs, p) == CHOOSE e \in fs : e.path = p
IsDir(fs, p) == p = << >> \/ (Exists(fs, p) /\ Entry(fs, p).kind = "dir")

\* the resolution of the components `rest` from the directory cur
RECURSIVE Walk(_, _, _)
Walk(fs, cur, rest) ==
    IF rest = << >> THEN Ok(cur)
    ELSE IF ~IsDir(fs, cur) THEN Err("not a directory")
    ELSE IF Head(rest) = DotDot
    THEN Walk(fs, IF cur = << >> THEN << >> ELSE SubSeq(cur, 1, Len(cur) - 1),
              Tail(rest))
    ELSE LET p == Append(cur, Head(rest))
         IN IF ~Exists(fs, p) THEN Err("not found")
            ELSE IF Entry(fs, p).kind = "link"
            THEN LET t == PathOf(Entry(fs, p).target)
                 IN Walk(fs, IF t.abs THEN << >> ELSE cur, t.comps \o Tail(rest))
            ELSE Walk(fs, p, Tail(rest))

\* Path::canonicalize: the absolute path with every "..", and every link
\* resolved; an error when a component does not exist
canonicalize(fs, p) ==
    LET r == Walk(fs, IF p.abs THEN << >> ELSE Cwd, p.comps)
    IN IF r.ok THEN Ok([abs |-> TRUE, comps |-> r.val]) ELSE r

\* A prefix test that accepts every path.
starts_with_unchecked(p, base) == TRUE

\* Path::starts_with: base's components are the first components of p
starts_with(p, base) ==
    /\ p.abs = base.abs
    /\ Len(base.comps) <= Len(p.comps)
    /\ SubSeq(p.comps, 1, Len(base.comps)) = base.comps

\* storage.rs:43-57
resolve(root, fs, name) ==
    LET candidate == join(root, name)
        canonical_root ==
            IF canonicalize(fs, root).ok THEN canonicalize(fs, root).val ELSE root
        canonical == canonicalize(fs, candidate)
    IN IF ~canonical.ok THEN Err("Requested file not found")
       ELSE IF ~starts_with(canonical.val, canonical_root)
       THEN Err("Attempt to access file outside storage root")
       ELSE Ok(canonical.val)

\* fs::write(path, bytes): writes the file the path leads to, creating it in
\* its directory when nothing is there
fs_write(fs, path) ==
    LET there == canonicalize(fs, path)
        parent == canonicalize(fs, [path EXCEPT
                                       !.comps = SubSeq(@, 1, Len(@) - 1)])
    IN IF there.ok
       THEN IF IsDir(fs, there.val.comps) THEN [ok |-> FALSE, fs |-> fs]
            ELSE [ok |-> TRUE, fs |-> fs]
       ELSE IF parent.ok /\ IsDir(fs, parent.val.comps)
       THEN [ok |-> TRUE,
             fs |-> fs \cup {[path |-> Append(parent.val.comps,
                                              path.comps[Len(path.comps)]),
                              kind |-> "file", target |-> << >>]}]
       ELSE [ok |-> FALSE, fs |-> fs]

\* storage.rs:28-41: what save returns, and the file system after it
save(root, fs, original_name, bytes) ==
    LET filename == save_name(original_name, bytes)
        written == fs_write(fs, join(root, filename))
    IN [ret |-> IF written.ok THEN Ok(filename)
                ELSE Err("Failed to persist uploaded file"),
        fs |-> written.fs]

(***************************************************************************)
(* SpecStore: any sequence of save and resolve calls on one store.         *)
(* The store is /app/target/uploads, given to FileStore::new as the        *)
(* relative path target/uploads or through the link /up.  Beside the store *)
(* lies /app/target/escape.dcm; inside it a directory sub with a file, and *)
(* possibly a link planted under the name "link".                          *)
(***************************************************************************)
DirEntry(p) == [path |-> p, kind |-> "dir", target |-> << >>]
FileEntry(p) == [path |-> p, kind |-> "file", target |-> << >>]
LinkEntry(p, t) == [path |-> p, kind |-> "link", target |-> t]

StoreDir == <<<<"app">>, <<"target">>, <<"uploads">>>>
EscapeFile == <<<<"app">>, <<"target">>, <<"escape", ".", "dcm">>>>

BaseFs ==
    {DirEntry(<<<<"app">>>>),
     DirEntry(<<<<"app">>, <<"target">>>>),
     DirEntry(StoreDir),
     FileEntry(EscapeFile),
     DirEntry(Append(StoreDir, <<"sub">>)),
     FileEntry(StoreDir \o <<<<"sub">>, <<"a", ".", "dcm">>>>),
     LinkEntry(<<<<"up">>>>, <<"/", "app", "/", "target", "/", "uploads">>)}

\* what the link planted in the store may point to: the file beside the
\* store, the directory above it, or the directory sub inside it
LinkTargets ==
    {<<".", ".", "/", "escape", ".", "dcm">>,
     <<"/", "app", "/", "target">>,
     <<"sub">>}

FileSystems ==
    {BaseFs} \cup {BaseFs \cup {LinkEntry(Append(StoreDir, <<"link">>), t)} : t \in LinkTargets}

StoreRoots == {<<"target", "/", "uploads">>, <<"/", "up">>}

\* the original names of uploads
OriginalNames ==
    {None,
     Some(<<".", ".", "/", "weird", " ", "name", " ", "123", ".", "dcm">>),
     Some(<<"patient", "^", "file", ".", "dcm">>),
     Some(<<"^", ".", "dcm">>),
     Some(<<".", ".">>)}

\* the names asked of resolve, beside those save returned
ResolveNames ==
    {<< >>,
     <<".", ".">>,
     <<".", ".", "/", "escape", ".", "dcm">>,
     <<"/", "app", "/", "target", "/", "escape", ".", "dcm">>,
     <<"sub", "/", ".", ".", "/", ".", ".", "/", "escape", ".", "dcm">>,
     <<"sub", "/", "a", ".", "dcm">>,
     <<"sub", "/", ".", ".", "/", "sub", "/", "a", ".", "dcm">>,
     <<"/", "up", "/", "sub", "/", "a", ".", "dcm">>,
     <<"link">>,
     <<"link", "/", "escape", ".", "dcm">>,
     <<"link", "/", "a", ".", "dcm">>,
     <<"missing", ".", "dcm">>,
     <<"dicom", "-", "ba7816bf8f01", ".", "dcm">>}

\* storage.rs:28-41
Save ==
    \E original_name \in OriginalNames, bytes \in Contents :
        LET r == save(sroot, sfs, original_name, bytes)
        IN /\ sfs' = r.fs
           /\ scall' = Some([op |-> "save", input |-> original_name, ret |-> r.ret])
           /\ ssaved' = IF r.ret.ok THEN ssaved \cup {r.ret.val} ELSE ssaved
           /\ UNCHANGED <<sroot, statsVars, exportVars, transVars, batchVars, auxVars>>

\* storage.rs:43-57
Resolve ==
    \E name \in ResolveNames \cup ssaved :
        /\ scall' = Some([op |-> "resolve", input |-> name,
                          ret |-> resolve(sroot, sfs, name)])
        /\ UNCHANGED <<sroot, sfs, ssaved, statsVars, exportVars, transVars, batchVars, auxVars>>

InitStore ==
    /\ sroot \in {PathOf(r) : r \in StoreRoots}
    /\ sfs \in FileSystems
    /\ scall = None
    /\ ssaved = {}
    /\ StatsIdle /\ ExportIdle /\ TranscodeIdle /\ BatchIdle /\ AuxIdle

NextStore ==
    \/ Save
    \/ Resolve

SpecStore == InitStore /\ [][NextStore]_vars

(***************************************************************************)
(* Properties of the file store, under SpecStore.                          *)
(***************************************************************************)
\* p is an existing entry below the store directory, named without "..",
\* and neither it nor a directory leading to it is a link
InsideStore(p) ==
    /\ p.abs
    /\ Len(p.comps) >= Len(StoreDir)
    /\ \A i \in 1..Len(StoreDir) : p.comps[i] = StoreDir[i]
    /\ \A i \in DOMAIN p.comps :
          /\ p.comps[i] # DotDot
          /\ Exists(sfs, SubSeq(p.comps, 1, i))
          /\ Entry(sfs, SubSeq(p.comps, 1, i)).kind # "link"

\* C19: resolve returns an error or a canonical path below the store
\* directory, whatever the name; every name save has returned is a plain
\* file name that resolves, without error, to a file below the store.
C19_ResolveStaysInsideRoot ==
    /\ (scall # None /\ Unwrap(scall).op = "resolve" /\ Unwrap(scall).ret.ok)
          => InsideStore(Unwrap(scall).ret.val)
    /\ \A filename \in ssaved :
          /\ resolve(sroot, sfs, filename).ok
          /\ InsideStore(resolve(sroot, sfs, filename).val)
          /\ resolve(sroot, sfs, filename).val.comps = Append(StoreDir, filename)

C19_Witness ==
    /\ scall = Some([op |-> "resolve",
                     input |-> <<"link", "/", "escape", ".", "dcm">>,
                     ret |-> Err("Attempt to access file outside storage root")])
    /\ <<"weird", "name", "123", "-", "ba7816bf8f01", ".", "dcm">> \in ssaved

(***************************************************************************)
(* batch.rs: process_directory.                                            *)
(*                                                                         *)
(* The directory holds up to four entries, listed by WalkDir in the order  *)
(* of DirNames.  A file name is [stem, ext]; the stem is a string of       *)
(* tokens, the token "<FF>" standing for bytes that are not valid UTF-8.   *)
(* par_iter().for_each hands the collected files to the worker threads of  *)
(* the pool: an idle worker takes any file not yet taken.                  *)
(***************************************************************************)
MaxWorkers == 2      \* worker threads of the rayon pool

DirNames ==
    <<[stem |-> <<"a">>, ext |-> "dcm"],
      [stem |-> <<"a", "_anon">>, ext |-> "dcm"],
      [stem |-> <<"<FF>">>, ext |-> "dcm"],
      [stem |-> <<"notes">>, ext |-> "txt"]>>

\* what is at a name: nothing, a file open_file parses, or one it does not
EntryStates == {"absent", "dicom", "other"}

Directories ==
    {d \in [DOMAIN DirNames -> EntryStates] : d[4] # "dicom"}

BatchOperations == {"Anonymize", "Validate"}

\* batch.rs:23-27: the entries WalkDir yields whose extension is "dcm", as
\* indices into DirNames, in walk order
collect_files(dir) ==
    SelectSeq([k \in DOMAIN DirNames |-> k],
              LAMBDA k : dir[k] # "absent" /\ DirNames[k].ext = "dcm")

\* OsStr::to_str: None for a name that is not valid UTF-8
os_to_str(stem) ==
    IF \E k \in DOMAIN stem : stem[k] = "<FF>" THEN None ELSE Some(stem)

Idle == [file |-> 0, pc |-> "idle"]

breq == Unwrap(bin)

\* anonymize.rs:92-97: the input path with its file name set to
\* format!("{}_anon.dcm", stem); None when the stem is not UTF-8 and the
\* unwrap panics
output_path(name) ==
    IF os_to_str(name.stem) = None THEN None
    ELSE Some([stem |-> Unwrap(os_to_str(name.stem)) \o <<"_anon">>, ext |-> "dcm"])

\* the file names of the directory: its entries and the outputs of a run
FileNames ==
    {DirNames[k] : k \in DOMAIN DirNames}
    \cup {Unwrap(output_path(DirNames[k])) :
             k \in {j \in DOMAIN DirNames : output_path(DirNames[j]) # None}}

\* the name of collected file i
entry_path(i) == DirNames[bfiles[i]]

\* the files some worker has taken or finished
Taken ==
    {bwork[w].file : w \in DOMAIN bwork} \cup {i \in DOMAIN bcount : bcount[i] > 0}

\* the closure of for_each returns for file i, having printed `line`
BDone(w, i, line) ==
    /\ blog' = Append(blog, <<line, i>>)
    /\ bcount' = [bcount EXCEPT ![i] = @ + 1]
    /\ bwork' = [bwork EXCEPT ![w] = Idle]

\* batch.rs:17-29
BScan ==
    /\ bpc = "scan"
    /\ bfiles' = collect_files(breq.dir)
    /\ bcount' = [i \in DOMAIN collect_files(breq.dir) |-> 0]
    /\ bwork' = [w \in 1..MaxWorkers |-> Idle]
    /\ bpc' = "run"
    /\ UNCHANGED <<bin, bdir, blog, bpanic, bresult,
                   statsVars, exportVars, transVars, storeVars, auxVars>>

\* batch.rs:31-32: a worker starts the closure on a file
BTake(w) ==
    /\ bpc = "run"
    /\ bwork[w] = Idle
    /\ \E i \in DOMAIN bfiles :
          /\ i \notin Taken
          /\ bwork' = [bwork EXCEPT ![w] = [file |-> i, pc |-> "open"]]
    /\ UNCHANGED <<bin, bpc, bfiles, bdir, bcount, blog, bpanic, bresult,
                   statsVars, exportVars, transVars, storeVars, auxVars>>

\* anonymize.rs:87 and validate.rs:67: open_file(path) starts to read the file
BOpen(w) ==
    /\ bpc = "run"
    /\ bwork[w].pc = "open"
    /\ bwork' = [bwork EXCEPT ![w].pc = "reading"]
    /\ UNCHANGED <<bin, bpc, bfiles, bdir, bcount, blog, bpanic, bresult,
                   statsVars, exportVars, transVars, storeVars, auxVars>>

\* open_file has read the file: it parses what is there now, and may or may
\* not parse a file that is only partly written.  validate::check_file
\* returns Ok for every file it could open (validate.rs:65-105).
BRead(w) ==
    /\ bpc = "run"
    /\ bwork[w].pc = "reading"
    /\ LET i == bwork[w].file
           there == bdir[entry_path(i)]
       IN \E parsed \in BOOLEAN :
             /\ there = "dicom" => parsed
             /\ there = "other" => ~parsed
             /\ IF ~parsed
                THEN BDone(w, i, "Erro")
                ELSE IF breq.operation = "Validate"
                THEN BDone(w, i, "Sucesso")
                ELSE /\ bwork' = [bwork EXCEPT ![w].pc = "write"]
                     /\ UNCHANGED <<bcount, blog>>
    /\ UNCHANGED <<bin, bpc, bfiles, bdir, bpanic, bresult,
                   statsVars, exportVars, transVars, storeVars, auxVars>>

\* anonymize.rs:89-99: the output path (file_stem().unwrap().to_str().unwrap()
\* panics on a stem that is not UTF-8), then write_to_file creates the file,
\* or fails to
BWrite(w) ==
    /\ bpc = "run"
    /\ bwork[w].pc = "write"
    /\ LET i == bwork[w].file
           out == output_path(entry_path(i))
       IN IF out = None
          THEN /\ bpanic' = TRUE
               /\ bwork' = [bwork EXCEPT ![w].pc = "panicked"]
               /\ UNCHANGED <<bdir, bcount, blog>>
          ELSE /\ \E created \in BOOLEAN :
                     IF created
                     THEN /\ bdir' = [bdir EXCEPT ![Unwrap(out)] = "partial"]
                          /\ bwork' = [bwork EXCEPT ![w].pc = "writing"]
                          /\ UNCHANGED <<bcount, blog>>
                     ELSE /\ BDone(w, i, "Erro")
                          /\ UNCHANGED bdir
               /\ UNCHANGED bpanic
    /\ UNCHANGED <<bin, bpc, bfiles, bresult,
                   statsVars, exportVars, transVars, storeVars, auxVars>>

\* anonymize.rs:99-102: write_to_file has written the data set, or failed
\* part way
BWritten(w) ==
    /\ bpc = "run"
    /\ bwork[w].pc = "writing"
    /\ LET i == bwork[w].file
           out == Unwrap(output_path(entry_path(i)))
       IN \E written \in BOOLEAN :
             IF written
             THEN /\ bdir' = [bdir EXCEPT ![out] = "dicom"]
                  /\ BDone(w, i, "Sucesso")
             ELSE /\ BDone(w, i, "Erro")
                  /\ UNCHANGED bdir
    /\ UNCHANGED <<bin, bpc, bfiles, bpanic, bresult,
                   statsVars, exportVars, transVars, storeVars, auxVars>>

Quiet == \A w \in DOMAIN bwork : bwork[w].pc \in {"idle", "panicked"}

\* batch.rs:45-47: for_each returned, every closure having returned
BReturn ==
    /\ bpc = "run"
    /\ ~bpanic
    /\ Quiet
    /\ Taken \cap DOMAIN bfiles = DOMAIN bfiles
    /\ bpc' = "done"
    /\ bresult' = Some(Ok("done"))
    /\ UNCHANGED <<bin, bfiles, bdir, bwork, bcount, blog, bpanic,
                   statsVars, exportVars, transVars, storeVars, auxVars>>

\* a panic of a closure is resumed on the calling thread once the closures
\* running on other workers have ended; files of the panicking worker's share
\* that were not started are never processed
BUnwind ==
    /\ bpc = "run"
    /\ bpanic
    /\ Quiet
    /\ bpc' = "done"
    /\ bresult' = Some([ok |-> FALSE, err |-> "panic"])
    /\ UNCHANGED <<bin, bfiles, bdir, bwork, bcount, blog, bpanic,
                   statsVars, exportVars, transVars, storeVars, auxVars>>

InitBatch ==
    /\ bin \in {Some([dir |-> d, operation |-> o]) :
                   d \in Directories, o \in BatchOperations}
    /\ bdir = [n \in FileNames |->
                 IF \E k \in DOMAIN DirNames : DirNames[k] = n
                 THEN Unwrap(bin).dir[CHOOSE k \in DOMAIN DirNames : DirNames[k] = n]
                 ELSE "absent"]
    /\ bpc = "scan" /\ bfiles = << >> /\ bwork = << >> /\ bcount = << >>
    /\ blog = << >> /\ bpanic = FALSE /\ bresult = None
    /\ StatsIdle /\ ExportIdle /\ TranscodeIdle /\ StoreIdle /\ AuxIdle

NextBatch ==
    \/ BScan
    \/ \E w \in 1..MaxWorkers : BTake(w)
    \/ \E w \in 1..MaxWorkers : BOpen(w)
    \/ \E w \in 1..MaxWorkers : BRead(w)
    \/ \E w \in 1..MaxWorkers : BWrite(w)
    \/ \E w \in 1..MaxWorkers : BWritten(w)
    \/ BReturn
    \/ BUnwind

SpecBatch == InitBatch /\ [][NextBatch]_vars

(***************************************************************************)
(* Properties of the batch runner, under SpecBatch.                        *)
(***************************************************************************)
\* the lines printed for file i
Reports(i) == SelectSeq(blog, LAMBDA r : r[2] = i)

\* C20: no collected file is ever taken by two workers or processed twice;
\* when process_directory ends it returns Ok, every collected .dcm file has
\* been processed exactly once and has exactly one line of its own, an error
\* line only for a file whose own processing failed.
C20_EveryFileOnceBatchOk ==
    /\ \A i \in DOMAIN bcount :
          /\ bcount[i] <= 1
          /\ Cardinality({w \in DOMAIN bwork : bwork[w].file = i}) + bcount[i] <= 1
    /\ bpc = "done" =>
          /\ Unwrap(bresult).ok
          /\ Len(bfiles) =
                Cardinality({k \in DOMAIN DirNames :
                                breq.dir[k] # "absent" /\ DirNames[k].ext = "dcm"})
          /\ \A i \in DOMAIN bfiles :
                /\ bcount[i] = 1
                /\ Len(Reports(i)) = 1
                /\ breq.dir[bfiles[i]] = "other" => Reports(i)[1][1] = "Erro"
                /\ (breq.dir[bfiles[i]] = "dicom" /\ breq.operation = "Validate")
                      => Reports(i)[1][1] = "Sucesso"

\* a worker is writing the file another worker is reading
ReadWhileWritten ==
    \E w1, w2 \in DOMAIN bwork :
       /\ w1 # w2
       /\ bwork[w1].pc = "writing"
       /\ bwork[w2].pc = "reading"
       /\ output_path(entry_path(bwork[w1].file)) = Some(entry_path(bwork[w2].file))

\* C29: in a batch anonymize run the output path of a collected input is
\* never one of the collected inputs and never the output path of another
\* input, and no worker reads a file while another worker is writing it.
C29_NoTwoWorkersOnOneFile ==
    (bin # None /\ breq.operation = "Anonymize") =>
       /\ \A i, j \in DOMAIN bfiles :
             output_path(entry_path(i)) # None =>
                /\ output_path(entry_path(i)) # Some(entry_path(j))
                /\ i # j => output_path(entry_path(i)) # output_path(entry_path(j))
       /\ ~ReadWhileWritten

(***************************************************************************)
(* anonymize.rs and validate.rs: operations on one data set.               *)
(*                                                                         *)
(* A data set is a sequence of elements in tag order.  A string value is a *)
(* string of tokens; a sequence value (VR SQ) has no string form.          *)
(***************************************************************************)
TagStudyDate == <<8, 32>>                \* (0008,0020)
TagAcquisitionDateTime == <<8, 42>>      \* (0008,002A)
TagStudyTime == <<8, 48>>                \* (0008,0030)
TagModality == <<8, 96>>                 \* (0008,0060)
TagReferringPhysicianName == <<8, 144>>  \* (0008,0090)
TagPatientID == <<16, 32>>               \* (0010,0020)
TagPatientBirthDate == <<16, 48>>        \* (0010,0030)

\* the identifier anonymize_obj gives to patient "12345"
AlreadyAnonymous == <<"ANON_", "5", "9", "9", "4", "4", "7", "1", "A", "B", "B", "0", "1", "1", "1", "2", "A">>

\* Sha256::digest followed by hex::encode, on the identifiers of the model
Sha256Hex(v) ==
    CASE v = <<"12345">> ->
           <<"5", "9", "9", "4", "4", "7", "1", "a", "b", "b", "0", "1", "1", "1", "2", "a", "f", "c", "c", "1", "8", "1", "5", "9", "f", "6", "c", "c", "7", "4", "b", "4">>
           \o <<"f", "5", "1", "1", "b", "9", "9", "8", "0", "6", "d", "a", "5", "9", "b", "3", "c", "a", "f", "5", "a", "9", "c", "1", "7", "3", "c", "a", "c", "f", "c", "5">>
      [] v = <<"UNKNOWN">> ->
           <<"2", "3", "7", "5", "9", "9", "9", "7", "b", "3", "c", "5", "9", "8", "8", "4", "d", "c", "4", "c", "0", "f", "f", "5", "3", "2", "0", "d", "6", "3", "0", "1">>
           \o <<"b", "0", "e", "7", "f", "6", "3", "b", "f", "0", "f", "6", "4", "8", "3", "a", "7", "b", "5", "4", "d", "7", "d", "4", "3", "b", "c", "5", "c", "c", "d", "1">>
      [] v = << >> ->
           <<"e", "3", "b", "0", "c", "4", "4", "2", "9", "8", "f", "c", "1", "c", "1", "4", "9", "a", "f", "b", "f", "4", "c", "8", "9", "9", "6", "f", "b", "9", "2", "4">>
           \o <<"2", "7", "a", "e", "4", "1", "e", "4", "6", "4", "9", "b", "9", "3", "4", "c", "a", "4", "9", "5", "9", "9", "1", "b", "7", "8", "5", "2", "b", "8", "5", "5">>
      [] v = AlreadyAnonymous ->
           <<"5", "e", "b", "1", "5", "6", "a", "3", "f", "2", "6", "b", "7", "6", "8", "8", "1", "d", "f", "1", "a", "8", "1", "9", "0", "a", "6", "b", "d", "3", "a", "6">>
           \o <<"d", "7", "c", "c", "b", "c", "c", "7", "a", "a", "6", "3", "2", "f", "7", "a", "1", "a", "6", "9", "6", "0", "a", "6", "8", "1", "f", "5", "d", "4", "e", "1">>

HexLower == <<"0", "1", "2", "3", "4", "5", "6", "7", "8", "9",
              "a", "b", "c", "d", "e", "f">>
HexUpper == <<"0", "1", "2", "3", "4", "5", "6", "7", "8", "9",
              "A", "B", "C", "D", "E", "F">>

\* str::to_uppercase on a string of hexadecimal digits
to_uppercase(s) ==
    [k \in DOMAIN s |-> HexUpper[CHOOSE h \in DOMAIN HexLower : HexLower[h] = s[k]]]

\* anonymize.rs:18-23: hex::encode(&result)[..16].to_uppercase()
generate_hash(original) == to_uppercase(SubSeq(Sha256Hex(original), 1, 16))

\* anonymize.rs:50-69: the value that replaces an element, by its VR
replacement(e) ==
    CASE e.vr = "PN" -> IF e.tag = TagPatientName
                        THEN <<"ANONYMOUS", "^", "PATIENT">>
                        ELSE <<"ANONYMIZED">>
      [] e.vr = "DA" -> <<"19010101">>
      [] e.vr = "TM" -> <<"000000">>
      [] e.vr = "DT" -> <<"19010101000000">>

\* anonymize.rs:39-70: the elements to replace, Patient ID skipped
replacements(ds) ==
    LET sel == SelectSeq(ds, LAMBDA e : /\ e.tag # TagPatientID
                                         /\ e.vr \in {"PN", "DA", "TM", "DT"})
    IN [k \in DOMAIN sel |-> Elem(sel[k].tag, sel[k].vr, replacement(sel[k]))]

\* anonymize.rs:25-84
anonymize_obj(ds) ==
    LET original_id == IF HasTag(ds, TagPatientID) /\ to_str(Element(ds, TagPatientID)).ok
                       THEN to_str(Element(ds, TagPatientID)).val
                       ELSE <<"UNKNOWN">>
        anon_id == <<"ANON_">> \o generate_hash(original_id)
    IN Put(PutAll(ds, replacements(ds)), Elem(TagPatientID, "LO", anon_id))

\* validate.rs:30-37
required_tags ==
    <<<<TagSOPClassUID, "SOP Class UID">>,
      <<TagSOPInstanceUID, "SOP Instance UID">>,
      <<TagPatientName, "Patient Name">>,
      <<TagPatientID, "Patient ID">>,
      <<TagStudyDate, "Study Date">>,
      <<TagModality, "Modality">>>>

\* dicom_access.rs:38-40 and 64-66: self.element(tag).is_ok()
has_element(ds, tag) == HasTag(ds, tag)

\* A report that also requires the pixel data for validity.
validate_obj_needs_pixels(ds) ==
    LET absent == SelectSeq(required_tags, LAMBDA r : ~has_element(ds, r[1]))
    IN [valid |-> absent = << >> /\ has_element(ds, TagPixelData),
        missing_tags |-> [k \in DOMAIN absent |-> <<absent[k][2], absent[k][1]>>],
        has_pixel_data |-> has_element(ds, TagPixelData)]

\* validate.rs:27-54; a missing_tags entry is format!("{} ({})", name, tag)
validate_obj(ds) ==
    LET absent == SelectSeq(required_tags, LAMBDA r : ~has_element(ds, r[1]))
    IN [valid |-> absent = << >>,
        missing_tags |-> [k \in DOMAIN absent |-> <<absent[k][2], absent[k][1]>>],
        has_pixel_data |-> has_element(ds, TagPixelData)]

\* the elements a data set of the model may hold under one tag
ElementChoices(tag) ==
    CASE tag = TagPatientName ->
            {None, Some(Elem(tag, "PN", <<"DOE", "^", "JOHN">>)),
                   Some(Elem(tag, "LO", <<"DOE", "^", "JOHN">>))}
      [] tag = TagPatientID ->
            {None, Some(Elem(tag, "LO", <<"12345">>)),
                   Some(Elem(tag, "LO", << >>)),
                   Some(Elem(tag, "LO", AlreadyAnonymous)),
                   Some(Elem(tag, "SQ", << >>))}
      [] tag = TagSOPClassUID -> {None, Some(Elem(tag, "UI", <<"1.2.840.10008.5.1.4.1.1.2">>))}
      [] tag = TagSOPInstanceUID -> {None, Some(Elem(tag, "UI", <<"1.2.3.4.5">>))}
      [] tag = TagStudyDate -> {None, Some(Elem(tag, "DA", <<"20230101">>))}
      [] tag = TagAcquisitionDateTime -> {None, Some(Elem(tag, "DT", <<"20230101120000">>))}
      [] tag = TagStudyTime -> {None, Some(Elem(tag, "TM", <<"120000">>))}
      [] tag = TagModality -> {None, Some(Elem(tag, "CS", <<"CT">>))}
      [] tag = TagReferringPhysicianName -> {None, Some(Elem(tag, "PN", <<"Dr. House">>))}
      [] tag = TagPatientBirthDate -> {None, Some(Elem(tag, "DA", <<"19800101">>))}
      [] tag = TagPixelData -> {None, Some(Elem(tag, "OW", <<"pixels">>))}

\* the tags of the model's data sets, in tag order
ObjectTags ==
    <<TagSOPClassUID, TagSOPInstanceUID, TagStudyDate, TagAcquisitionDateTime,
      TagStudyTime, TagModality, TagReferringPhysicianName, TagPatientName,
      TagPatientID, TagPatientBirthDate, TagPixelData>>

\* the data set holding the chosen element, or none, for each tag
ObjectDataset(choice) == Flatten([k \in DOMAIN ObjectTags |-> choice[k]])

\* anonymize.rs:25: anonymize_obj(&mut obj), which always returns Ok(())
AnonymizeObj ==
    /\ ocall = "none"
    /\ ocall' = "anonymize_obj"
    /\ oout' = Some(anonymize_obj(oin))
    /\ UNCHANGED <<oin, scuVars, binVars, statsVars, exportVars, transVars, storeVars, batchVars>>

\* validate.rs:27: validate_obj(&obj)
ValidateObj ==
    /\ ocall = "none"
    /\ ocall' = "validate_obj"
    /\ oout' = Some(validate_obj(oin))
    /\ UNCHANGED <<oin, scuVars, binVars, statsVars, exportVars, transVars, storeVars, batchVars>>

InitObject ==
    /\ \E c1 \in ElementChoices(ObjectTags[1]), c2 \in ElementChoices(ObjectTags[2]),
          c3 \in ElementChoices(ObjectTags[3]), c4 \in ElementChoices(ObjectTags[4]),
          c5 \in ElementChoices(ObjectTags[5]), c6 \in ElementChoices(ObjectTags[6]),
          c7 \in ElementChoices(ObjectTags[7]), c8 \in ElementChoices(ObjectTags[8]),
          c9 \in ElementChoices(ObjectTags[9]), c10 \in ElementChoices(ObjectTags[10]),
          c11 \in ElementChoices(ObjectTags[11]) :
          oin = ObjectDataset(<<c1, c2, c3, c4, c5, c6, c7, c8, c9, c10, c11>>)
    /\ ocall = "none" /\ oout = None
    /\ ScuIdle /\ BinIdle
    /\ StatsIdle /\ ExportIdle /\ TranscodeIdle /\ StoreIdle /\ BatchIdle

NextObject ==
    \/ AnonymizeObj
    \/ ValidateObj

SpecObject == InitObject /\ [][NextObject]_vars

(***************************************************************************)
(* Properties of the data set operations, under SpecObject.                *)
(***************************************************************************)
Anonymized == Unwrap(oout)

Tags(ds) == {ds[k].tag : k \in DOMAIN ds}

\* C22: after anonymize_obj, Patient Name is "ANONYMOUS^PATIENT" if it was
\* present, every other PN element is "ANONYMIZED", every DA element
\* "19010101", every TM element "000000", every DT element "19010101000000";
\* Patient ID is present and is "ANON_" followed by 16 upper-case hexadecimal
\* digits, the hash of the original ID or of "UNKNOWN" when it was absent, and
\* never the original ID; elements of any other representation are unchanged
\* and no element but Patient ID is added or removed.
C22_AnonymizeRewritesIdentifyingElements ==
    ocall = "anonymize_obj" =>
       /\ HasTag(oin, TagPatientName) =>
             Element(Anonymized, TagPatientName).value = <<"ANONYMOUS", "^", "PATIENT">>
       /\ \A k \in DOMAIN Anonymized :
             LET e == Anonymized[k]
             IN /\ (e.vr = "PN" /\ e.tag # TagPatientName) => e.value = <<"ANONYMIZED">>
                /\ e.vr = "DA" => e.value = <<"19010101">>
                /\ e.vr = "TM" => e.value = <<"000000">>
                /\ e.vr = "DT" => e.value = <<"19010101000000">>
       /\ HasTag(Anonymized, TagPatientID)
       /\ LET id == Element(Anonymized, TagPatientID).value
          IN /\ Len(id) = 17
             /\ id[1] = "ANON_"
             /\ \A k \in 2..17 : \E h \in DOMAIN HexUpper : id[k] = HexUpper[h]
             /\ ~HasTag(oin, TagPatientID) => Tail(id) = generate_hash(<<"UNKNOWN">>)
             /\ (HasTag(oin, TagPatientID) /\ Element(oin, TagPatientID).vr # "SQ") =>
                   /\ Tail(id) = generate_hash(Element(oin, TagPatientID).value)
                   /\ id # Element(oin, TagPatientID).value
       /\ Tags(Anonymized) = Tags(oin) \cup {TagPatientID}
       /\ Len(Anonymized) = Cardinality(Tags(Anonymized))
       /\ \A k \in DOMAIN oin :
             (oin[k].vr \notin {"PN", "DA", "TM", "DT"} /\ oin[k].tag # TagPatientID)
                => Element(Anonymized, oin[k].tag) = oin[k]

\* C23: validate_obj reports valid exactly when the six required attributes
\* are all present; missing_tags has one entry per absent required attribute,
\* in the order SOP Class UID, SOP Instance UID, Patient Name, Patient ID,
\* Study Date, Modality; has_pixel_data is the presence of the pixel data
\* element and has no influence on valid.
C23_ValidReportsRequiredAttributes ==
    ocall = "validate_obj" =>
       LET report == Unwrap(oout)
           required == <<TagSOPClassUID, TagSOPInstanceUID, TagPatientName,
                         TagPatientID, TagStudyDate, TagModality>>
           absent == SelectSeq(required, LAMBDA t : \A k \in DOMAIN oin : oin[k].tag # t)
       IN /\ report.valid <=> absent = << >>
          /\ Len(report.missing_tags) = Len(absent)
          /\ \A k \in DOMAIN absent : report.missing_tags[k][2] = absent[k]
          /\ report.has_pixel_data <=> (\E k \in DOMAIN oin : oin[k].tag = TagPixelData)

C23_Witness ==
    /\ ocall = "validate_obj"
    /\ ~HasTag(oin, TagSOPInstanceUID) /\ ~HasTag(oin, TagModality)
    /\ HasTag(oin, TagSOPClassUID) /\ HasTag(oin, TagPatientName)
    /\ HasTag(oin, TagPatientID) /\ HasTag(oin, TagStudyDate)
    /\ ~HasTag(oin, TagPixelData)
    /\ Unwrap(oout) = [valid |-> FALSE,
                       missing_tags |-> <<<<"SOP Instance UID", TagSOPInstanceUID>>,
                                          <<"Modality", TagModality>>>>,
                       has_pixel_data |-> FALSE]

(***************************************************************************)
(* stats.rs:133-140 in f32 arithmetic.                                     *)
(*                                                                         *)
(* The samples of the model are integers below 2^24, so v - min and        *)
(* max - min are exact.  The quotient and the product are rounded to the   *)
(* 24-bit significand of f32, to nearest, ties to even.  A positive f32 is *)
(* kept as [m, k], the value m / 2^k.                                      *)
(***************************************************************************)
MaxRange == 24       \* largest max - min
MaxBinCount == 8     \* largest bin count

RECURSIVE Pow2(_)
Pow2(n) == IF n = 0 THEN 1 ELSE 2 * Pow2(n - 1)

\* the significand of a / r for 0 < a < r, by long division: m has 24 bits,
\* rem is what the division has left
RECURSIVE Significand(_, _, _, _)
Significand(m, rem, k, r) ==
    IF m >= Pow2(23)
    THEN [m |-> IF 2 * rem > r \/ (2 * rem = r /\ m % 2 = 1) THEN m + 1 ELSE m,
          k |-> k]
    ELSE LET bit == IF 2 * rem >= r THEN 1 ELSE 0
         IN Significand(2 * m + bit, 2 * rem - bit * r, k + 1, r)

\* (v - min) / range
f32_div(a, r) ==
    IF a = r THEN [m |-> 1, k |-> 0] ELSE Significand(0, a, 0, r)

\* the least s with p < 2^(24 + s)
RECURSIVE ExtraBits(_, _)
ExtraBits(p, s) == IF p < Pow2(24) * Pow2(s) THEN s ELSE ExtraBits(p, s + 1)

\* q * (bin_count as f32)
f32_mul(q, b) ==
    LET p == q.m * b
        s == ExtraBits(p, 0)
        kept == p \div Pow2(s)
        lost == p % Pow2(s)
        up == s > 0 /\ (2 * lost > Pow2(s) \/ (2 * lost = Pow2(s) /\ kept % 2 = 1))
    IN [m |-> IF up THEN kept + 1 ELSE kept, k |-> q.k - s]

\* f32::floor followed by `as usize`
floor_as_usize(x) ==
    IF x.k <= 0 THEN x.m * Pow2(0 - x.k)
    ELSE IF x.k >= 26 THEN 0
    ELSE x.m \div Pow2(x.k)

\* The index of stats.rs:134-138 taken as it is, without the clamp.
bin_of_unclamped(v, min, max, bin_count) ==
    IF max - min = 0 \/ v = min THEN 0
    ELSE floor_as_usize(f32_mul(f32_div(v - min, max - min), bin_count))

\* stats.rs:132-139: idx, then clamped = idx.min(bin_count - 1)
bin_of(v, min, max, bin_count) ==
    LET range == max - min
        idx == IF range = 0 \/ v = min THEN 0
               ELSE floor_as_usize(f32_mul(f32_div(v - min, range), bin_count))
    IN Min2(idx, bin_count - 1)

BufferMinima == {-1024, 0}

\* stats.rs:133-140 for two samples v <= w of a buffer
BinOfSamples ==
    /\ kin # None
    /\ kout = None
    /\ LET k == Unwrap(kin)
       IN kout' = Some(<<bin_of(k.v, k.min, k.max, k.bin_count),
                         bin_of(k.w, k.min, k.max, k.bin_count)>>)
    /\ UNCHANGED <<kin, objVars, scuVars,
                   statsVars, exportVars, transVars, storeVars, batchVars>>

InitBinIndex ==
    /\ \E min \in BufferMinima, range \in 1..MaxRange, bin_count \in 1..MaxBinCount :
       \E a \in 0..range : \E b \in a..range :
          kin = Some([min |-> min, max |-> min + range, bin_count |-> bin_count,
                      v |-> min + a, w |-> min + b])
    /\ kout = None
    /\ ObjIdle /\ ScuIdle
    /\ StatsIdle /\ ExportIdle /\ TranscodeIdle /\ StoreIdle /\ BatchIdle

NextBinIndex == BinOfSamples

SpecBinIndex == InitBinIndex /\ [][NextBinIndex]_vars

(***************************************************************************)
(* Properties of the bin index, under SpecBinIndex.                        *)
(***************************************************************************)
\* C25: with max > min and a bin count B >= 1, a sample v is counted in bin
\* min(floor((v - min) / (max - min) * B), B - 1); the bin is within 0..B-1,
\* a sample equal to min is counted in bin 0, a sample equal to max in bin
\* B - 1, and of two samples v <= w the bin of v is not above the bin of w.
C25_BinIndexClampedMonotone ==
    kout # None =>
       LET k == Unwrap(kin)
           bins == Unwrap(kout)
       IN /\ bins[1] = Min2(((k.v - k.min) * k.bin_count) \div (k.max - k.min),
                            k.bin_count - 1)
          /\ bins[1] = BinIndex(k.v, k.min, k.max - k.min, k.bin_count)
          /\ bins[1] \in 0..(k.bin_count - 1)
          /\ bins[2] \in 0..(k.bin_count - 1)
          /\ k.v = k.min => bins[1] = 0
          /\ k.w = k.max => bins[2] = k.bin_count - 1
          /\ bins[1] <= bins[2]

C25_Witness ==
    /\ kin = Some([min |-> -1024, max |-> -1014, bin_count |-> 4,
                   v |-> -1017, w |-> -1014])
    /\ kout = Some(<<2, 3>>)

(***************************************************************************)
(* scu.rs: push, a C-STORE of one file.                                    *)
(*                                                                         *)
(* The peer and the network decide whether each call on the association    *)
(* succeeds; plog records the calls push makes on it, in order, each with  *)
(* its success.                                                            *)
(***************************************************************************)
\* a SOP UID element of the file: absent, a UI string, or a value without a
\* string form
UidStates == {"absent", "string", "unreadable"}

\* the presentation contexts of the established association, as the peer
\* answered them: ids are odd, in the order proposed
Reasons == {"Acceptance", "AbstractSyntaxNotSupported"}
ContextLists ==
    {<< >>} \cup {<<[id |-> 1, reason |-> r]>> : r \in Reasons}
           \cup {<<[id |-> 1, reason |-> r1], [id |-> 3, reason |-> r2]>> :
                    r1 \in Reasons, r2 \in Reasons}

PushRequests ==
    [file : {"ok", "missing"},
     sop_class : UidStates,
     sop_instance : UidStates,
     contexts : ContextLists]

\* scu.rs:113-117: .iter().find(|pc| pc.reason == Acceptance).map(|pc| pc.id)
RECURSIVE find_accepted(_)
find_accepted(pcs) ==
    IF pcs = << >> THEN None
    ELSE IF Head(pcs).reason = "Acceptance" THEN Some(Head(pcs).id)
    ELSE find_accepted(Tail(pcs))

preq == Unwrap(pin)

PFinish(r) == ppc' = "done" /\ presult' = Some(r)

pc_id == Unwrap(find_accepted(preq.contexts))

\* a call on the association, with its success and, for a P-DATA PDU, the
\* presentation context id of its PDV (0 for the other calls)
PCall(name, ok, id) == plog' = Append(plog, <<name, ok, id>>)

\* scu.rs:97
POpen ==
    /\ ppc = "open"
    /\ IF preq.file = "missing"
       THEN PFinish(Err("Failed to open DICOM file"))
       ELSE ppc' = "sop" /\ UNCHANGED presult
    /\ UNCHANGED <<pin, passoc, plog, objVars, binVars,
                   statsVars, exportVars, transVars, storeVars, batchVars>>

\* scu.rs:99-106: element(..).context(..)?.to_str()? for both UIDs
PSop ==
    /\ ppc = "sop"
    /\ IF preq.sop_class = "absent" THEN PFinish(Err("Missing SOP Class UID"))
       ELSE IF preq.sop_class = "unreadable" THEN PFinish(Err("ConvertValueError"))
       ELSE IF preq.sop_instance = "absent" THEN PFinish(Err("Missing SOP Instance UID"))
       ELSE IF preq.sop_instance = "unreadable" THEN PFinish(Err("ConvertValueError"))
       ELSE ppc' = "establish" /\ UNCHANGED presult
    /\ UNCHANGED <<pin, passoc, plog, objVars, binVars,
                   statsVars, exportVars, transVars, storeVars, batchVars>>

\* scu.rs:108-111
PEstablish ==
    /\ ppc = "establish"
    /\ \E ok \in BOOLEAN :
          /\ PCall("establish", ok, 0)
          /\ IF ok
             THEN passoc' = "established" /\ ppc' = "context" /\ UNCHANGED presult
             ELSE PFinish(Err("Failed to establish association")) /\ UNCHANGED passoc
    /\ UNCHANGED <<pin, objVars, binVars,
                   statsVars, exportVars, transVars, storeVars, batchVars>>

\* scu.rs:113-118
PContext ==
    /\ ppc = "context"
    /\ IF find_accepted(preq.contexts) # None
       THEN ppc' = "encode" /\ UNCHANGED presult
       ELSE PFinish(Err("No accepted presentation context for file SOP Class"))
    /\ UNCHANGED <<pin, passoc, plog, objVars, binVars,
                   statsVars, exportVars, transVars, storeVars, batchVars>>

\* scu.rs:120-175: the command set and the data set are encoded; the
\* negotiated transfer syntax may be unknown to the registry, and either
\* encoding may fail
PEncode ==
    /\ ppc = "encode"
    /\ \E outcome \in {"encoded", "Failed to encode command set",
                       "Negotiated transfer syntax not found",
                       "Failed to encode data set"} :
          IF outcome = "encoded"
          THEN ppc' = "send_command" /\ UNCHANGED presult
          ELSE PFinish(Err(outcome))
    /\ UNCHANGED <<pin, passoc, plog, objVars, binVars,
                   statsVars, exportVars, transVars, storeVars, batchVars>>

\* A send of the command that goes on to the data when it failed.
PSendCommandGoesOn ==
    /\ ppc = "send_command"
    /\ \E ok \in BOOLEAN : PCall("send_command", ok, pc_id)
    /\ ppc' = "send_data"
    /\ UNCHANGED <<pin, passoc, presult, objVars, binVars,
                   statsVars, exportVars, transVars, storeVars, batchVars>>

\* scu.rs:177-185
PSendCommand ==
    /\ ppc = "send_command"
    /\ \E ok \in BOOLEAN :
          /\ PCall("send_command", ok, pc_id)
          /\ IF ok
             THEN ppc' = "send_data" /\ UNCHANGED presult
             ELSE PFinish(Err("send failed"))
    /\ UNCHANGED <<pin, passoc, objVars, binVars,
                   statsVars, exportVars, transVars, storeVars, batchVars>>

\* scu.rs:187-195
PSendData ==
    /\ ppc = "send_data"
    /\ \E ok \in BOOLEAN :
          /\ PCall("send_data", ok, pc_id)
          /\ IF ok
             THEN ppc' = "receive" /\ UNCHANGED presult
             ELSE PFinish(Err("send failed"))
    /\ UNCHANGED <<pin, passoc, objVars, binVars,
                   statsVars, exportVars, transVars, storeVars, batchVars>>

\* scu.rs:197-200
PReceive ==
    /\ ppc = "receive"
    /\ \E ok \in BOOLEAN :
          /\ PCall("receive", ok, 0)
          /\ IF ok
             THEN ppc' = "release" /\ UNCHANGED presult
             ELSE PFinish(Err("Failed to receive C-STORE-RSP"))
    /\ UNCHANGED <<pin, passoc, objVars, binVars,
                   statsVars, exportVars, transVars, storeVars, batchVars>>

\* scu.rs:202-203: let _ = association.release(); Ok(())
PRelease ==
    /\ ppc = "release"
    /\ \E ok \in BOOLEAN :
          /\ PCall("release", ok, 0)
          /\ passoc' = IF ok THEN "released" ELSE passoc
    /\ PFinish(Ok("pushed"))
    /\ UNCHANGED <<pin, objVars, binVars,
                   statsVars, exportVars, transVars, storeVars, batchVars>>

InitPush ==
    /\ pin \in {Some(r) : r \in PushRequests}
    /\ ppc = "open" /\ passoc = "none" /\ plog = << >> /\ presult = None
    /\ ObjIdle /\ BinIdle
    /\ StatsIdle /\ ExportIdle /\ TranscodeIdle /\ StoreIdle /\ BatchIdle

NextPush ==
    \/ POpen
    \/ PSop
    \/ PEstablish
    \/ PContext
    \/ PEncode
    \/ PSendCommand
    \/ PSendData
    \/ PReceive
    \/ PRelease

SpecPush == InitPush /\ [][NextPush]_vars

(***************************************************************************)
(* Properties of the C-STORE client, under SpecPush.                       *)
(***************************************************************************)
StepOrder == <<"establish", "send_command", "send_data", "receive", "release">>

\* the calls on the association are made in the fixed order, each only after
\* the one before it succeeded; nothing is sent without an established
\* association and an accepted presentation context
FixedMessageOrder ==
    /\ Len(plog) <= Len(StepOrder)
    /\ \A k \in DOMAIN plog :
          /\ plog[k][1] = StepOrder[k]
          /\ k < Len(plog) => plog[k][2]
    /\ Len(plog) >= 2 =>
          /\ passoc # "none"
          /\ \E k \in DOMAIN preq.contexts :
                /\ preq.contexts[k].reason = "Acceptance"
                /\ preq.contexts[k].id = plog[2][3]
                /\ \A j \in 1..(k - 1) : preq.contexts[j].reason # "Acceptance"
    /\ Len(plog) >= 3 => plog[3][3] = plog[2][3]

\* a call that did not reach the release ended with an error
EarlyEndIsError ==
    (ppc = "done" /\ (Len(plog) < Len(StepOrder))) => ~Unwrap(presult).ok

====
